---- MODULE Spec2Model ----
(***************************************************************************)
(* A model of reqx: the line lexer (reqx-core/src/lexer.rs), the parser    *)
(* (reqx-core/src/parser.rs) and the interpreter                           *)
(* (reqx-core/src/interpreter.rs).                                         *)
(*                                                                         *)
(* Text is modelled character by character: a string is a sequence of      *)
(* one-character strings, a document is a sequence of lines.               *)
(***************************************************************************)
EXTENDS Integers, Sequences, FiniteSets, TLC

VARIABLES
    input,              \* the lines read so far (input.lines())
    pc,                 \* position of the run: read, lex, parse_lead, parse_req, exec, loop,
                        \* call, done, exited
    tokens,             \* Lexer.tokens
    in_body,            \* Lexer.in_body
    has_request_line,   \* Lexer.has_request_line
    pos,                \* parser: number of tokens the iterator has consumed
    variables,          \* ReqxFile.variables
    requests,           \* ReqxFile.requests
    opts,               \* execute's arguments dry_run, request_index, method_filter
    vars,               \* execute's variable map
    to_run,             \* execute's requests_to_run (0-based positions)
    k,                  \* number of entries of to_run the loop has finished
    calls,              \* the calls the transport has received, in order
    responses,          \* what the transport responses for each call so far: ok or fail
    result,             \* outcome of the run: "" while it runs, "ok", or the error
    text,               \* interpolate's argument s
    out,                \* interpolate's return value
    exit_code           \* main: the status the process exited with, once pc is "exited"

vars_all == <<input, pc, tokens, in_body, has_request_line, pos, variables,
              requests, opts, vars, to_run, k, calls, responses, result, text, out,
              exit_code>>

---------------------------------------------------------------------------
(* Bounds of the model. *)

\* lines of a document
MaxLines == 5
\* requests of a file handed to execute directly
MaxReqs == 3
\* pieces a text handed to interpolate directly is made of
MaxPieces == 5

\* tokens of a sequence handed to parse directly
MaxTokens == 4

---------------------------------------------------------------------------
(* Strings *)

None == [some |-> FALSE, val |-> <<>>]
Some(x) == [some |-> TRUE, val |-> x]

IsWhitespace(c) == c \in {" ", "\t", "\n", "\r"}

RECURSIVE TrimStart(_)
TrimStart(s) ==
    IF s # <<>> /\ IsWhitespace(Head(s)) THEN TrimStart(Tail(s)) ELSE s

RECURSIVE TrimEnd(_)
TrimEnd(s) ==
    IF s # <<>> /\ IsWhitespace(s[Len(s)])
    THEN TrimEnd(SubSeq(s, 1, Len(s) - 1))
    ELSE s

\* str::trim
Trim(s) == TrimEnd(TrimStart(s))

\* str::starts_with
StartsWith(s, p) == Len(s) >= Len(p) /\ SubSeq(s, 1, Len(p)) = p

\* str::find(char): the first position of c in s, 0 when there is none
Find(s, c) ==
    IF \E i \in 1..Len(s) : s[i] = c
    THEN CHOOSE i \in 1..Len(s) : s[i] = c /\ \A j \in 1..(i - 1) : s[j] # c
    ELSE 0

\* s[from..] with a 1-based from
From(s, from) == SubSeq(s, from, Len(s))

LowerCase ==
    <<"a", "b", "c", "d", "e", "f", "g", "h", "i", "j", "k", "l", "m",
      "n", "o", "p", "q", "r", "s", "t", "u", "v", "w", "x", "y", "z">>
UpperCase ==
    <<"A", "B", "C", "D", "E", "F", "G", "H", "I", "J", "K", "L", "M",
      "N", "O", "P", "Q", "R", "S", "T", "U", "V", "W", "X", "Y", "Z">>

UpperMap ==
    [c \in {LowerCase[i] : i \in 1..26} |->
        UpperCase[CHOOSE i \in 1..26 : LowerCase[i] = c]]

UpperChar(c) == IF c \in DOMAIN UpperMap THEN UpperMap[c] ELSE c

\* str::to_uppercase
ToUpper(s) == [i \in 1..Len(s) |-> UpperChar(s[i])]

\* trimmed.split_whitespace().next().unwrap_or("")
FirstWord(s) ==
    LET t == TrimStart(s)
        ws == {i \in 1..Len(t) : IsWhitespace(t[i])}
    IN  IF ws = {} THEN t
        ELSE SubSeq(t, 1, (CHOOSE i \in ws : \A j \in ws : i <= j) - 1)

GET == <<"G", "E", "T">>
POST == <<"P", "O", "S", "T">>
PUT == <<"P", "U", "T">>
PATCH == <<"P", "A", "T", "C", "H">>
DELETE == <<"D", "E", "L", "E", "T", "E">>
HEAD == <<"H", "E", "A", "D">>
OPTIONS == <<"O", "P", "T", "I", "O", "N", "S">>

HTTP_METHODS == {GET, POST, PUT, PATCH, DELETE, HEAD, OPTIONS}

---------------------------------------------------------------------------
(* Lexer *)

Tok(type, a, b, line) == [type |-> type, a |-> a, b |-> b, line |-> line]

\* Lexer::new
NewLexer == [tokens |-> <<>>, in_body |-> FALSE, has_request_line |-> FALSE]

\* Lexer::push
Push(lx, tok) == [lx EXCEPT !.tokens = Append(@, tok)]

Miss(lx) == [hit |-> FALSE, err |-> FALSE, lx |-> lx]
Hit(lx) == [hit |-> TRUE, err |-> FALSE, lx |-> lx]
Fail(lx) == [hit |-> FALSE, err |-> TRUE, lx |-> lx]

\* Lexer::last_meaningful_token: the type of the last non-blank token, "" when none
last_meaningful_token(toks) ==
    LET idx == {i \in 1..Len(toks) : toks[i].type # "BlankLine"}
    IN  IF idx = {} THEN ""
        ELSE toks[CHOOSE i \in idx : \A j \in idx : j <= i].type

\* try_separator with body mode left as it is
try_separator_keeps_body(lx, trimmed, line) ==
    IF trimmed # <<"#", "#", "#">> THEN Miss(lx)
    ELSE Hit(Push([lx EXCEPT !.has_request_line = FALSE],
                  Tok("Separator", <<>>, <<>>, line)))

try_separator(lx, trimmed, line) ==
    IF trimmed # <<"#", "#", "#">> THEN Miss(lx)
    ELSE Hit(Push([lx EXCEPT !.in_body = FALSE, !.has_request_line = FALSE],
                  Tok("Separator", <<>>, <<>>, line)))

\* try_blank with body mode entered after a header only, not after a URL
try_blank_header_only(lx, trimmed, line) ==
    IF trimmed # <<>> THEN Miss(lx)
    ELSE LET starts_body == last_meaningful_token(lx.tokens) = "Header"
             lx1 == IF ~lx.in_body /\ starts_body
                    THEN [lx EXCEPT !.in_body = TRUE]
                    ELSE lx
         IN  Hit(Push(lx1, Tok("BlankLine", <<>>, <<>>, line)))

try_blank(lx, trimmed, line) ==
    IF trimmed # <<>> THEN Miss(lx)
    ELSE LET starts_body == last_meaningful_token(lx.tokens) \in {"Header", "Url"}
             lx1 == IF ~lx.in_body /\ starts_body
                    THEN [lx EXCEPT !.in_body = TRUE]
                    ELSE lx
         IN  Hit(Push(lx1, Tok("BlankLine", <<>>, <<>>, line)))

\* try_variable with body mode left as it is
try_variable_keeps_body(lx, line_str, line) ==
    IF ~StartsWith(line_str, <<"@">>) THEN Miss(lx)
    ELSE LET eq_pos == Find(line_str, "=")
         IN  IF eq_pos = 0 THEN Fail(lx)
             ELSE LET name == Trim(SubSeq(line_str, 2, eq_pos - 1))
                      value == Trim(From(line_str, eq_pos + 1))
                  IN  IF name = <<>> THEN Fail(lx)
                      ELSE Hit(Push(lx, Tok("Variable", name, value, line)))

try_variable(lx, line_str, line) ==
    IF ~StartsWith(line_str, <<"@">>) THEN Miss(lx)
    ELSE LET eq_pos == Find(line_str, "=")
         IN  IF eq_pos = 0 THEN Fail(lx)
             ELSE LET name == Trim(SubSeq(line_str, 2, eq_pos - 1))
                      value == Trim(From(line_str, eq_pos + 1))
                  IN  IF name = <<>> THEN Fail(lx)
                      ELSE Hit(Push([lx EXCEPT !.in_body = FALSE],
                                    Tok("Variable", name, value, line)))

try_comment(lx, line_str, line) ==
    IF ~StartsWith(line_str, <<"#">>) THEN Miss(lx)
    ELSE Hit(Push(lx, Tok("Comment", Trim(From(line_str, 2)), <<>>, line)))

IsUrlPrefixed(trimmed) ==
    \/ StartsWith(trimmed, <<"h", "t", "t", "p", ":", "/", "/">>)
    \/ StartsWith(trimmed, <<"h", "t", "t", "p", "s", ":", "/", "/">>)
    \/ StartsWith(trimmed, <<"l", "o", "c", "a", "l", "h", "o", "s", "t">>)
    \/ StartsWith(trimmed, <<":">>)

\* try_request_line tried also when the block has a request line already
try_request_line_again(lx, trimmed, line) ==
    LET upper == ToUpper(FirstWord(trimmed))
    IN  IF upper \in HTTP_METHODS
        THEN LET url == Trim(From(trimmed, Len(upper) + 1))
                 lx1 == Push(lx, Tok("Method", upper, <<>>, line))
                 lx2 == IF url # <<>>
                        THEN Push(lx1, Tok("Url", url, <<>>, line))
                        ELSE lx1
             IN  Hit([lx2 EXCEPT !.has_request_line = TRUE])
        ELSE IF IsUrlPrefixed(trimmed)
        THEN Hit([Push(lx, Tok("Url", trimmed, <<>>, line))
                    EXCEPT !.has_request_line = TRUE])
        ELSE Miss(lx)

try_request_line(lx, trimmed, line) ==
    IF lx.has_request_line THEN Miss(lx)
    ELSE LET upper == ToUpper(FirstWord(trimmed))
         IN  IF upper \in HTTP_METHODS
             THEN LET url == Trim(From(trimmed, Len(upper) + 1))
                      lx1 == Push(lx, Tok("Method", upper, <<>>, line))
                      lx2 == IF url # <<>>
                             THEN Push(lx1, Tok("Url", url, <<>>, line))
                             ELSE lx1
                  IN  Hit([lx2 EXCEPT !.has_request_line = TRUE])
             ELSE IF IsUrlPrefixed(trimmed)
             THEN Hit([Push(lx, Tok("Url", trimmed, <<>>, line))
                         EXCEPT !.has_request_line = TRUE])
             ELSE Miss(lx)

try_header(lx, line_str, line) ==
    LET colon == Find(line_str, ":")
    IN  IF colon = 0 THEN Miss(lx)
        ELSE LET key == Trim(SubSeq(line_str, 1, colon - 1))
             IN  IF key = <<>> \/ Find(key, " ") # 0 THEN Miss(lx)
                 ELSE Hit(Push(lx, Tok("Header", key,
                                       Trim(From(line_str, colon + 1)), line)))

\* classify_line with the comment rule tried before the body-mode rule
classify_line_comment_first(lx, raw_line, line) ==
    LET trimmed == Trim(raw_line)
        sep == try_separator(lx, trimmed, line)
        blank == try_blank(lx, trimmed, line)
        var == try_variable(lx, trimmed, line)
        com == try_comment(lx, trimmed, line)
        req == try_request_line(lx, trimmed, line)
        hdr == try_header(lx, trimmed, line)
    IN  IF sep.hit THEN sep
        ELSE IF blank.hit THEN blank
        ELSE IF var.err \/ var.hit THEN var
        ELSE IF com.hit THEN com
        ELSE IF lx.in_body
        THEN Hit(Push(lx, Tok("BodyLine", raw_line, <<>>, line)))
        ELSE IF req.hit THEN req
        ELSE IF hdr.hit THEN hdr
        ELSE IF ~lx.has_request_line
        THEN Hit([Push(lx, Tok("Url", trimmed, <<>>, line))
                    EXCEPT !.has_request_line = TRUE])
        ELSE Hit(Push(lx, Tok("BodyLine", raw_line, <<>>, line)))

\* classify_line with the body-mode rule tried before the variable rule
classify_line_body_before_variable(lx, raw_line, line) ==
    LET trimmed == Trim(raw_line)
        sep == try_separator(lx, trimmed, line)
        blank == try_blank(lx, trimmed, line)
        var == try_variable(lx, trimmed, line)
        com == try_comment(lx, trimmed, line)
        req == try_request_line(lx, trimmed, line)
        hdr == try_header(lx, trimmed, line)
    IN  IF sep.hit THEN sep
        ELSE IF blank.hit THEN blank
        ELSE IF lx.in_body
        THEN Hit(Push(lx, Tok("BodyLine", raw_line, <<>>, line)))
        ELSE IF var.err \/ var.hit THEN var
        ELSE IF com.hit THEN com
        ELSE IF req.hit THEN req
        ELSE IF hdr.hit THEN hdr
        ELSE IF ~lx.has_request_line
        THEN Hit([Push(lx, Tok("Url", trimmed, <<>>, line))
                    EXCEPT !.has_request_line = TRUE])
        ELSE Hit(Push(lx, Tok("BodyLine", raw_line, <<>>, line)))

\* Lexer::classify_line: the first classifier that hits decides
classify_line(lx, raw_line, line) ==
    LET trimmed == Trim(raw_line)
        sep == try_separator(lx, trimmed, line)
        blank == try_blank(lx, trimmed, line)
        var == try_variable(lx, trimmed, line)
        com == try_comment(lx, trimmed, line)
        req == try_request_line(lx, trimmed, line)
        hdr == try_header(lx, trimmed, line)
    IN  IF sep.hit THEN sep
        ELSE IF blank.hit THEN blank
        ELSE IF var.err \/ var.hit THEN var
        ELSE IF lx.in_body
        THEN Hit(Push(lx, Tok("BodyLine", raw_line, <<>>, line)))
        ELSE IF com.hit THEN com
        ELSE IF req.hit THEN req
        ELSE IF hdr.hit THEN hdr
        ELSE IF ~lx.has_request_line
        THEN Hit([Push(lx, Tok("Url", trimmed, <<>>, line))
                    EXCEPT !.has_request_line = TRUE])
        ELSE Hit(Push(lx, Tok("BodyLine", raw_line, <<>>, line)))

---------------------------------------------------------------------------
(* Parser.  The token iterator is the number p of tokens consumed so far:   *)
(* iter.peek() is toks[p + 1] and iter.next() adds one to p.                *)

HasNext(toks, p) == p < Len(toks)
Peek(toks, p) == toks[p + 1]

\* HttpMethod::from_str
from_str(s) ==
    IF ToUpper(s) \in HTTP_METHODS THEN Some(ToUpper(s)) ELSE None

\* the first token after position p + 1 that is not a BlankLine ("" when none)
next_meaningful(toks, p) ==
    LET idx == {i \in (p + 2)..Len(toks) : toks[i].type # "BlankLine"}
    IN  IF idx = {} THEN ""
        ELSE toks[CHOOSE i \in idx : \A j \in idx : i <= j].type

\* parse: the loop over the leading variables
RECURSIVE parse_leading(_, _, _)
parse_leading(toks, p, vs) ==
    IF ~HasNext(toks, p) THEN [pos |-> p, variables |-> vs]
    ELSE LET t == Peek(toks, p)
         IN  CASE t.type = "Variable" ->
                    parse_leading(toks, p + 1,
                        Append(vs, [name |-> t.a, value |-> t.b, line |-> t.line]))
               [] t.type = "BlankLine" -> parse_leading(toks, p + 1, vs)
               [] t.type = "Comment" ->
                    IF next_meaningful(toks, p) = "Method"
                    THEN [pos |-> p, variables |-> vs]
                    ELSE parse_leading(toks, p + 1, vs)
               [] t.type = "Separator" -> [pos |-> p + 1, variables |-> vs]
               [] OTHER -> [pos |-> p, variables |-> vs]

\* skip_blank_sep with a variable between two requests skipped as well
RECURSIVE skip_blank_sep_variable(_, _)
skip_blank_sep_variable(toks, p) ==
    IF HasNext(toks, p)
        /\ Peek(toks, p).type \in {"BlankLine", "Separator", "Variable"}
    THEN skip_blank_sep_variable(toks, p + 1)
    ELSE p

\* parse: skip blank lines and separators between requests
RECURSIVE skip_blank_sep(_, _)
skip_blank_sep(toks, p) ==
    IF HasNext(toks, p) /\ Peek(toks, p).type \in {"BlankLine", "Separator"}
    THEN skip_blank_sep(toks, p + 1)
    ELSE p

RECURSIVE parse_comment(_, _, _)
parse_comment(toks, p, comment) ==
    IF ~HasNext(toks, p) THEN [pos |-> p, comment |-> comment]
    ELSE LET t == Peek(toks, p)
         IN  CASE t.type = "Comment" -> parse_comment(toks, p + 1, Some(t.a))
               [] t.type = "BlankLine" -> parse_comment(toks, p + 1, comment)
               [] OTHER -> [pos |-> p, comment |-> comment]

MethodUrl(ok, method, url, line, p) ==
    [ok |-> ok, method |-> method, url |-> url, line |-> line, pos |-> p]

\* parse_method_and_url with a method that no URL follows taken with an empty URL
parse_method_and_url_no_url(toks, p) ==
    IF ~HasNext(toks, p) THEN MethodUrl(FALSE, None, <<>>, 0, p)
    ELSE LET first_token == Peek(toks, p)
             req_line == first_token.line
         IN  CASE first_token.type = "Method" ->
                    LET method == from_str(first_token.a)
                    IN  IF ~method.some
                        THEN MethodUrl(FALSE, None, <<>>, req_line, p + 1)
                        ELSE IF ~HasNext(toks, p + 1) \/ Peek(toks, p + 1).type # "Url"
                        THEN MethodUrl(TRUE, method, <<>>, req_line, p + 1)
                        ELSE MethodUrl(TRUE, method, Peek(toks, p + 1).a,
                                       req_line, p + 2)
               [] first_token.type = "Url" ->
                    MethodUrl(TRUE, None, first_token.a, req_line, p + 1)
               [] OTHER -> MethodUrl(FALSE, None, <<>>, req_line, p + 1)

parse_method_and_url(toks, p) ==
    IF ~HasNext(toks, p) THEN MethodUrl(FALSE, None, <<>>, 0, p)
    ELSE LET first_token == Peek(toks, p)
             req_line == first_token.line
         IN  CASE first_token.type = "Method" ->
                    LET method == from_str(first_token.a)
                    IN  IF ~method.some
                        THEN MethodUrl(FALSE, None, <<>>, req_line, p + 1)
                        ELSE IF ~HasNext(toks, p + 1)
                        THEN MethodUrl(FALSE, None, <<>>, req_line, p + 1)
                        ELSE IF Peek(toks, p + 1).type # "Url"
                        THEN MethodUrl(FALSE, None, <<>>, req_line, p + 2)
                        ELSE MethodUrl(TRUE, method, Peek(toks, p + 1).a,
                                       req_line, p + 2)
               [] first_token.type = "Url" ->
                    MethodUrl(TRUE, None, first_token.a, req_line, p + 1)
               [] OTHER -> MethodUrl(FALSE, None, <<>>, req_line, p + 1)

RECURSIVE parse_headers(_, _, _)
parse_headers(toks, p, headers) ==
    IF ~HasNext(toks, p) THEN [pos |-> p, headers |-> headers]
    ELSE LET t == Peek(toks, p)
         IN  CASE t.type = "Header" ->
                    parse_headers(toks, p + 1,
                                  Append(headers, [key |-> t.a, value |-> t.b]))
               [] t.type = "BlankLine" -> [pos |-> p + 1, headers |-> headers]
               [] t.type \in {"Separator", "Comment", "Method", "Variable"} ->
                    [pos |-> p, headers |-> headers]
               [] OTHER -> [pos |-> p + 1, headers |-> headers]

\* parse_body's BlankLine arm: `next` is iter.peek() again, and nothing was
\* consumed since the peek that matched BlankLine, so it is that same token
blank_then_body(toks, p) ==
    LET next == Peek(toks, p)
    IN  next.type = "BodyLine"

RECURSIVE parse_body_lines(_, _, _)
parse_body_lines(toks, p, body_lines) ==
    IF ~HasNext(toks, p) THEN [pos |-> p, body_lines |-> body_lines]
    ELSE LET t == Peek(toks, p)
         IN  CASE t.type = "BodyLine" ->
                    parse_body_lines(toks, p + 1, Append(body_lines, t.a))
               [] t.type = "BlankLine" ->
                    IF blank_then_body(toks, p)
                    THEN parse_body_lines(toks, p + 1, Append(body_lines, <<>>))
                    ELSE [pos |-> p, body_lines |-> body_lines]
               [] OTHER -> [pos |-> p, body_lines |-> body_lines]

\* body_lines.join("\n")
RECURSIVE Join(_)
Join(lines) ==
    IF Len(lines) = 0 THEN <<>>
    ELSE IF Len(lines) = 1 THEN lines[1]
    ELSE lines[1] \o <<"\n">> \o Join(Tail(lines))

parse_body(toks, p) ==
    LET r == parse_body_lines(toks, p, <<>>)
    IN  [pos |-> r.pos,
         body |-> IF r.body_lines = <<>> THEN None ELSE Some(Join(r.body_lines))]

\* infer_method with the body ignored
infer_method_get(body) == GET

\* the method of a request line without a method word
infer_method(body) == IF body.some THEN POST ELSE GET

\* parse_request run on a copy of the iterator: a request that was parsed
\* leaves the tokens it was parsed from unread
parse_request_on_copy(toks, p) ==
    LET c == parse_comment(toks, p, None)
        mu == parse_method_and_url(toks, c.pos)
        h == parse_headers(toks, mu.pos, <<>>)
        b == parse_body(toks, h.pos)
    IN  IF ~mu.ok THEN [ok |-> FALSE, pos |-> mu.pos, req |-> <<>>]
        ELSE [ok |-> TRUE, pos |-> p,
              req |-> [comment |-> c.comment,
                       method |-> IF mu.method.some THEN mu.method.val
                                  ELSE infer_method(b.body),
                       url |-> mu.url,
                       headers |-> h.headers,
                       body |-> b.body,
                       line |-> mu.line]]

parse_request(toks, p) ==
    LET c == parse_comment(toks, p, None)
        mu == parse_method_and_url(toks, c.pos)
        h == parse_headers(toks, mu.pos, <<>>)
        b == parse_body(toks, h.pos)
    IN  IF ~mu.ok THEN [ok |-> FALSE, pos |-> mu.pos, req |-> <<>>]
        ELSE [ok |-> TRUE, pos |-> b.pos,
              req |-> [comment |-> c.comment,
                       method |-> IF mu.method.some THEN mu.method.val
                                  ELSE infer_method(b.body),
                       url |-> mu.url,
                       headers |-> h.headers,
                       body |-> b.body,
                       line |-> mu.line]]

---------------------------------------------------------------------------
(* Interpreter *)

EmptyMap == [n \in {} |-> <<>>]

\* HashMap::insert
Insert(m, key, value) ==
    [n \in DOMAIN m \cup {key} |-> IF n = key THEN value ELSE m[n]]

\* execute: the variable map built from file.variables
RECURSIVE build_vars(_, _)
build_vars(vs, m) ==
    IF vs = <<>> THEN m
    ELSE build_vars(Tail(vs), Insert(m, Head(vs).name, Head(vs).value))

Ok(val) == [err |-> "", val |-> val]
Err(kind) == [err |-> kind, val |-> <<>>]

\* parse_variable_name, reading s from position i (after the opening braces)
RECURSIVE parse_variable_name(_, _, _)
parse_variable_name(s, i, var_name) ==
    IF i > Len(s) THEN [ok |-> FALSE, name |-> var_name, next |-> i]
    ELSE IF s[i] = "}" /\ i + 1 <= Len(s) /\ s[i + 1] = "}"
    THEN [ok |-> TRUE, name |-> Trim(var_name), next |-> i + 2]
    ELSE parse_variable_name(s, i + 1, Append(var_name, s[i]))

\* interpolate's loop over the characters, from position i with result so far
RECURSIVE interpolate_from(_, _, _, _)
interpolate_from(s, i, res, env) ==
    IF i > Len(s) THEN Ok(res)
    ELSE IF s[i] = "{" /\ i + 1 <= Len(s) /\ s[i + 1] = "{"
    THEN LET n == parse_variable_name(s, i + 2, <<>>)
         IN  IF ~n.ok THEN Err("Unclosed")
             ELSE IF n.name \notin DOMAIN env THEN Err("Undefined")
             ELSE interpolate_from(s, n.next, res \o env[n.name], env)
    ELSE interpolate_from(s, i + 1, Append(res, s[i]), env)

\* interpolate with the variable name looked up as written, not trimmed
RECURSIVE interpolate_untrimmed_from(_, _, _, _)
interpolate_untrimmed_from(s, i, res, env) ==
    IF i > Len(s) THEN Ok(res)
    ELSE IF s[i] = "{" /\ i + 1 <= Len(s) /\ s[i + 1] = "{"
    THEN LET n == parse_variable_name(s, i + 2, <<>>)
             raw == SubSeq(s, i + 2, n.next - 3)
         IN  IF ~n.ok THEN Err("Unclosed")
             ELSE IF raw \notin DOMAIN env THEN Err("Undefined")
             ELSE interpolate_untrimmed_from(s, n.next, res \o env[raw], env)
    ELSE interpolate_untrimmed_from(s, i + 1, Append(res, s[i]), env)

interpolate_untrimmed(s, env) == interpolate_untrimmed_from(s, 1, <<>>, env)

\* interpolate with a span that cannot be resolved left in the text
interpolate_lenient(s, env) ==
    LET r == interpolate_from(s, 1, <<>>, env)
    IN  IF r.err # "" THEN Ok(s) ELSE r

\* interpolate with the text it produced interpolated once more
interpolate_twice(s, env) ==
    LET r == interpolate_from(s, 1, <<>>, env)
    IN  IF r.err # "" THEN r ELSE interpolate_from(r.val, 1, <<>>, env)

interpolate(s, env) == interpolate_from(s, 1, <<>>, env)

LOCALHOST ==
    <<"h", "t", "t", "p", ":", "/", "/", "l", "o", "c", "a", "l", "h", "o", "s", "t">>

expand_url(url) ==
    IF StartsWith(url, <<":">>) THEN LOCALHOST \o url ELSE url

\* resolve_headers with a header left out when a later one has the same key
RECURSIVE resolve_headers_unique(_, _, _)
resolve_headers_unique(hs, resolved, env) ==
    IF hs = <<>> THEN Ok(resolved)
    ELSE LET key == interpolate(Head(hs).key, env)
             value == interpolate(Head(hs).value, env)
         IN  IF key.err # "" THEN Err(key.err)
             ELSE IF value.err # "" THEN Err(value.err)
             ELSE IF \E i \in 2..Len(hs) : hs[i].key = Head(hs).key
             THEN resolve_headers_unique(Tail(hs), resolved, env)
             ELSE resolve_headers_unique(Tail(hs),
                                         Append(resolved, <<key.val, value.val>>), env)

\* execute_request: the loop that resolves the headers; stops at the first error
RECURSIVE resolve_headers(_, _, _)
resolve_headers(hs, resolved, env) ==
    IF hs = <<>> THEN Ok(resolved)
    ELSE LET key == interpolate(Head(hs).key, env)
             value == interpolate(Head(hs).value, env)
         IN  IF key.err # "" THEN Err(key.err)
             ELSE IF value.err # "" THEN Err(value.err)
             ELSE resolve_headers(Tail(hs),
                                  Append(resolved, <<key.val, value.val>>), env)

\* resolve_request with the shorthand expanded on the template, before interpolation
resolve_request_expand_template(req, env) ==
    LET interpolated_url == interpolate(expand_url(req.url), env)
        hdrs == resolve_headers(req.headers, <<>>, env)
        body == IF req.body.some THEN interpolate(req.body.val, env) ELSE Ok(<<>>)
    IN  IF interpolated_url.err # "" THEN Err(interpolated_url.err)
        ELSE IF hdrs.err # "" THEN Err(hdrs.err)
        ELSE IF body.err # "" THEN Err(body.err)
        ELSE Ok([method |-> req.method,
                 url |-> interpolated_url.val,
                 headers |-> hdrs.val,
                 body |-> IF req.body.some THEN Some(body.val) ELSE None])

\* execute_request up to the dry-run test: the resolved request, or the error
resolve_request(req, env) ==
    LET interpolated_url == interpolate(req.url, env)
        hdrs == resolve_headers(req.headers, <<>>, env)
        body == IF req.body.some THEN interpolate(req.body.val, env) ELSE Ok(<<>>)
    IN  IF interpolated_url.err # "" THEN Err(interpolated_url.err)
        ELSE IF hdrs.err # "" THEN Err(hdrs.err)
        ELSE IF body.err # "" THEN Err(body.err)
        ELSE Ok([method |-> req.method,
                 url |-> expand_url(interpolated_url.val),
                 headers |-> hdrs.val,
                 body |-> IF req.body.some THEN Some(body.val) ELSE None])

\* select_index with the upper bound of the index off by one
select_index_strict(request_index, total) ==
    IF request_index.some
    THEN IF request_index.val = 0 \/ request_index.val >= total
         THEN Err("InvalidIndex")
         ELSE Ok(<<request_index.val - 1>>)
    ELSE Ok([i \in 1..total |-> i - 1])

\* select_index with the requests enumerated from the last to the first
select_index_reversed(request_index, total) ==
    IF request_index.some
    THEN IF request_index.val = 0 \/ request_index.val > total
         THEN Err("InvalidIndex")
         ELSE Ok(<<request_index.val - 1>>)
    ELSE Ok([i \in 1..total |-> total - i])

\* execute: requests_to_run for a request index, as 0-based positions
select_index(request_index, total) ==
    IF request_index.some
    THEN IF request_index.val = 0 \/ request_index.val > total
         THEN Err("InvalidIndex")
         ELSE Ok(<<request_index.val - 1>>)
    ELSE Ok([i \in 1..total |-> i - 1])

\* Vec::retain
RECURSIVE retain(_, _, _)
retain(run, reqs, target_method) ==
    IF run = <<>> THEN <<>>
    ELSE IF reqs[Head(run) + 1].method = target_method
    THEN <<Head(run)>> \o retain(Tail(run), reqs, target_method)
    ELSE retain(Tail(run), reqs, target_method)

\* select_method with a filter that names no method taken as no filter
select_method_lenient(run, reqs, method_filter) ==
    IF method_filter.some /\ from_str(method_filter.val).some
    THEN Ok(retain(run, reqs, from_str(method_filter.val).val))
    ELSE Ok(run)

\* execute: requests_to_run after the method filter
select_method(run, reqs, method_filter) ==
    IF method_filter.some
    THEN LET target_method == from_str(method_filter.val)
         IN  IF ~target_method.some THEN Err("InvalidFilter")
             ELSE Ok(retain(run, reqs, target_method.val))
    ELSE Ok(run)

\* no_match with an empty selection reported as an error
no_match_is_error(run, method_filter) ==
    IF method_filter.some /\ run = <<>> THEN "NoMatch" ELSE ""

\* execute: the return when the filter left nothing to run, "" when it goes on
no_match(run, method_filter) ==
    IF method_filter.some /\ run = <<>> THEN "ok" ELSE ""

---------------------------------------------------------------------------
(* Inputs *)

\* the lines a document is made of
Lines ==
    { <<"#", "#", "#">>,                                    \* ###
      <<>>,                                                 \* (blank)
      <<"@", "a", " ", "=", "1">>,                          \* @a =1
      <<"@", "a", "=", "2">>,                               \* @a=2
      <<"#", " ", "c">>,                                    \* # c
      <<"G", "E", "T", " ", ":", "{", "{", "a", "}", "}">>, \* GET :{{a}}
      <<":", "9">>,                                         \* :9
      <<"K", ":", " ", "v">>,                               \* K: v
      <<"{", "b", "}">> }                                   \* {b}

NoOptions == [dry_run |-> FALSE, request_index |-> None, method_filter |-> None]

\* the flags main hands to execute
CliOptions == {NoOptions}

---------------------------------------------------------------------------
(* The run of main: tokenize, parse, execute *)

Lexer == [tokens |-> tokens, in_body |-> in_body,
          has_request_line |-> has_request_line]

\* LexLineOf with the lines numbered from 0
LexLineOfZeroBased(L) ==
    /\ pc = "lex"
    /\ Len(input) < MaxLines
    /\ \E raw_line \in L :
        \E r \in {classify_line(Lexer, raw_line, Len(input))} :
            /\ input' = Append(input, raw_line)
            /\ IF r.err
               THEN /\ pc' = "done"
                    /\ result' = "LexError"
                    /\ UNCHANGED <<tokens, in_body, has_request_line>>
               ELSE /\ pc' = "lex"
                    /\ result' = result
                    /\ tokens' = r.lx.tokens
                    /\ in_body' = r.lx.in_body
                    /\ has_request_line' = r.lx.has_request_line
    /\ UNCHANGED <<pos, variables, requests, opts, vars, to_run, k, calls,
                   responses, text, out,
                   exit_code>>

\* tokenize: one iteration of the loop over input.lines(), the line drawn from L
LexLineOf(L) ==
    /\ pc = "lex"
    /\ Len(input) < MaxLines
    /\ \E raw_line \in L :
        \E r \in {classify_line(Lexer, raw_line, Len(input) + 1)} :
            /\ input' = Append(input, raw_line)
            /\ IF r.err
               THEN /\ pc' = "done"
                    /\ result' = "LexError"
                    /\ UNCHANGED <<tokens, in_body, has_request_line>>
               ELSE /\ pc' = "lex"
                    /\ result' = result
                    /\ tokens' = r.lx.tokens
                    /\ in_body' = r.lx.in_body
                    /\ has_request_line' = r.lx.has_request_line
    /\ UNCHANGED <<pos, variables, requests, opts, vars, to_run, k, calls,
                   responses, text, out,
                   exit_code>>

LexLine == LexLineOf(Lines)

\* tokenize: the input is exhausted, Ok(lexer.tokens); main calls parse
LexEnd ==
    /\ pc = "lex"
    /\ pc' = "parse_lead"
    /\ UNCHANGED <<input, tokens, in_body, has_request_line, pos, variables,
                   requests, opts, vars, to_run, k, calls, responses, result,
                   text, out,
                   exit_code>>

\* parse: the leading variables
ParseLeading ==
    /\ pc = "parse_lead"
    /\ LET r == parse_leading(tokens, 0, <<>>)
       IN  /\ pos' = r.pos
           /\ variables' = r.variables
    /\ pc' = "parse_req"
    /\ UNCHANGED <<input, tokens, in_body, has_request_line, requests, opts,
                   vars, to_run, k, calls, responses, result, text, out,
                   exit_code>>

\* parse: one iteration of the loop over the request blocks
ParseRequest ==
    /\ pc = "parse_req"
    /\ HasNext(tokens, skip_blank_sep(tokens, pos))
    /\ \E r \in {parse_request(tokens, skip_blank_sep(tokens, pos))} :
           /\ pos' = r.pos
           /\ IF r.ok
              THEN /\ requests' = Append(requests, r.req)
                   /\ pc' = "parse_req"
                   /\ result' = result
              ELSE /\ requests' = requests
                   /\ pc' = "done"
                   /\ result' = "ParseError"
    /\ UNCHANGED <<input, tokens, in_body, has_request_line, variables, opts,
                   vars, to_run, k, calls, responses, text, out,
                   exit_code>>

\* parse: no token is left, Ok(ReqxFile); main calls execute with flags of O
ParseEndOf(O) ==
    /\ pc = "parse_req"
    /\ ~HasNext(tokens, skip_blank_sep(tokens, pos))
    /\ pos' = skip_blank_sep(tokens, pos)
    /\ opts' \in O
    /\ pc' = "exec"
    /\ UNCHANGED <<input, tokens, in_body, has_request_line, variables,
                   requests, vars, to_run, k, calls, responses, result, text, out,
                   exit_code>>

ParseEnd == ParseEndOf(CliOptions)

\* ExecuteBegin with the method filter parsed before the index is checked
ExecuteBeginFilterFirst ==
    /\ pc = "exec"
    /\ vars' = build_vars(variables, EmptyMap)
    /\ LET by_index == select_index(opts.request_index, Len(requests))
           by_method == select_method(by_index.val, requests, opts.method_filter)
           parsed == select_method(<<>>, requests, opts.method_filter)
       IN  IF parsed.err # ""
           THEN /\ result' = parsed.err
                /\ pc' = "done"
                /\ to_run' = to_run
           ELSE IF by_index.err # ""
           THEN /\ result' = by_index.err
                /\ pc' = "done"
                /\ to_run' = to_run
           ELSE IF no_match(by_method.val, opts.method_filter) # ""
           THEN /\ result' = no_match(by_method.val, opts.method_filter)
                /\ pc' = "done"
                /\ to_run' = by_method.val
           ELSE /\ result' = result
                /\ pc' = "loop"
                /\ to_run' = by_method.val
    /\ UNCHANGED <<input, tokens, in_body, has_request_line, pos, variables,
                   requests, opts, k, calls, responses, text, out,
                   exit_code>>

\* ExecuteBegin with every selected request interpolated before the loop
ExecuteBeginChecksAll ==
    /\ pc = "exec"
    /\ vars' = build_vars(variables, EmptyMap)
    /\ LET by_index == select_index(opts.request_index, Len(requests))
           by_method == select_method(by_index.val, requests, opts.method_filter)
           failing == {i \in 1..Len(by_method.val) :
                          resolve_request(requests[by_method.val[i] + 1],
                                          build_vars(variables, EmptyMap)).err # ""}
       IN  IF by_index.err # ""
           THEN /\ result' = by_index.err
                /\ pc' = "done"
                /\ to_run' = to_run
           ELSE IF by_method.err # ""
           THEN /\ result' = by_method.err
                /\ pc' = "done"
                /\ to_run' = to_run
           ELSE IF no_match(by_method.val, opts.method_filter) # ""
           THEN /\ result' = no_match(by_method.val, opts.method_filter)
                /\ pc' = "done"
                /\ to_run' = by_method.val
           ELSE IF failing # {}
           THEN /\ result' =
                       resolve_request(
                           requests[by_method.val[CHOOSE i \in failing :
                                                     \A j \in failing : i <= j] + 1],
                           build_vars(variables, EmptyMap)).err
                /\ pc' = "done"
                /\ to_run' = by_method.val
           ELSE /\ result' = result
                /\ pc' = "loop"
                /\ to_run' = by_method.val
    /\ UNCHANGED <<input, tokens, in_body, has_request_line, pos, variables,
                   requests, opts, k, calls, responses, text, out,
                   exit_code>>

\* execute, up to its loop over requests_to_run
ExecuteBegin ==
    /\ pc = "exec"
    /\ vars' = build_vars(variables, EmptyMap)
    /\ LET by_index == select_index(opts.request_index, Len(requests))
           by_method == select_method(by_index.val, requests, opts.method_filter)
       IN  IF by_index.err # ""
           THEN /\ result' = by_index.err
                /\ pc' = "done"
                /\ to_run' = to_run
           ELSE IF by_method.err # ""
           THEN /\ result' = by_method.err
                /\ pc' = "done"
                /\ to_run' = to_run
           ELSE IF no_match(by_method.val, opts.method_filter) # ""
           THEN /\ result' = no_match(by_method.val, opts.method_filter)
                /\ pc' = "done"
                /\ to_run' = by_method.val
           ELSE /\ result' = result
                /\ pc' = "loop"
                /\ to_run' = by_method.val
    /\ UNCHANGED <<input, tokens, in_body, has_request_line, pos, variables,
                   requests, opts, k, calls, responses, text, out,
                   exit_code>>

\* ExecuteRequest with the transport called in a dry run too
ExecuteRequestDryRunSends ==
    /\ pc = "loop"
    /\ k < Len(to_run)
    /\ LET i == to_run[k + 1]
           r == resolve_request(requests[i + 1], vars)
       IN  IF r.err # ""
           THEN /\ result' = r.err
                /\ pc' = "done"
                /\ UNCHANGED <<k, calls>>
           ELSE /\ calls' = Append(calls, [req |-> i] @@ r.val)
                /\ pc' = "call"
                /\ UNCHANGED <<k, result>>
    /\ UNCHANGED <<input, tokens, in_body, has_request_line, pos, variables,
                   requests, opts, vars, to_run, responses, text, out,
                   exit_code>>

\* ExecuteRequest with a dry run returning before the request is interpolated
ExecuteRequestDryRunSkips ==
    /\ pc = "loop"
    /\ k < Len(to_run)
    /\ LET i == to_run[k + 1]
           r == resolve_request(requests[i + 1], vars)
       IN  IF opts.dry_run
           THEN /\ k' = k + 1
                /\ UNCHANGED <<pc, calls, result>>
           ELSE IF r.err # ""
           THEN /\ result' = r.err
                /\ pc' = "done"
                /\ UNCHANGED <<k, calls>>
           ELSE /\ calls' = Append(calls, [req |-> i] @@ r.val)
                /\ pc' = "call"
                /\ UNCHANGED <<k, result>>
    /\ UNCHANGED <<input, tokens, in_body, has_request_line, pos, variables,
                   requests, opts, vars, to_run, responses, text, out,
                   exit_code>>

\* execute_request, up to and including the call of client.execute
ExecuteRequest ==
    /\ pc = "loop"
    /\ k < Len(to_run)
    /\ LET i == to_run[k + 1]
           r == resolve_request(requests[i + 1], vars)
       IN  IF r.err # ""
           THEN /\ result' = r.err
                /\ pc' = "done"
                /\ UNCHANGED <<k, calls>>
           ELSE IF opts.dry_run
           THEN /\ k' = k + 1
                /\ UNCHANGED <<pc, calls, result>>
           ELSE /\ calls' = Append(calls, [req |-> i] @@ r.val)
                /\ pc' = "call"
                /\ UNCHANGED <<k, result>>
    /\ UNCHANGED <<input, tokens, in_body, has_request_line, pos, variables,
                   requests, opts, vars, to_run, responses, text, out,
                   exit_code>>

\* TransportReturn with a failure of the transport skipped over
TransportReturnContinue ==
    /\ pc = "call"
    /\ \E failed \in BOOLEAN :
        /\ responses' = Append(responses, IF failed THEN "fail" ELSE "ok")
        /\ result' = result
        /\ pc' = "loop"
        /\ k' = k + 1
    /\ UNCHANGED <<input, tokens, in_body, has_request_line, pos, variables,
                   requests, opts, vars, to_run, calls, text, out,
                   exit_code>>

\* client.execute returns: a response, or a failure that execute propagates
TransportReturn ==
    /\ pc = "call"
    /\ \E failed \in BOOLEAN :
        IF failed
        THEN /\ responses' = Append(responses, "fail")
             /\ result' = "TransportError"
             /\ pc' = "done"
             /\ k' = k
        ELSE /\ responses' = Append(responses, "ok")
             /\ result' = result
             /\ pc' = "loop"
             /\ k' = k + 1
    /\ UNCHANGED <<input, tokens, in_body, has_request_line, pos, variables,
                   requests, opts, vars, to_run, calls, text, out,
                   exit_code>>

\* execute: the loop is over, Ok(())
ExecuteEnd ==
    /\ pc = "loop"
    /\ k = Len(to_run)
    /\ result' = "ok"
    /\ pc' = "done"
    /\ UNCHANGED <<input, tokens, in_body, has_request_line, pos, variables,
                   requests, opts, vars, to_run, k, calls, responses, text, out,
                   exit_code>>

Init ==
    /\ input = <<>>
    /\ pc = "lex"
    /\ tokens = NewLexer.tokens
    /\ in_body = NewLexer.in_body
    /\ has_request_line = NewLexer.has_request_line
    /\ pos = 0
    /\ variables = <<>>
    /\ requests = <<>>
    /\ opts = NoOptions
    /\ vars = EmptyMap
    /\ to_run = <<>>
    /\ k = 0
    /\ calls = <<>>
    /\ responses = <<>>
    /\ result = ""
    /\ text = <<>>
    /\ out = Ok(<<>>)
    /\ exit_code = 0

Next ==
    \/ LexLine
    \/ LexEnd
    \/ ParseLeading
    \/ ParseRequest
    \/ ParseEnd
    \/ ExecuteBegin
    \/ ExecuteRequest
    \/ TransportReturn
    \/ ExecuteEnd

Spec == Init /\ [][Next]_vars_all

---------------------------------------------------------------------------
(* The run of tokenize, parse and execute on documents of variable lines,  *)
(* request lines and header lines with `{{..}}` in their keys and values   *)

HeaderDocLines ==
    { <<"@", "a", "=", "u">>,                                         \* @a=u
      <<"@", "k", " ", "=", " ", "K">>,                               \* @k = K
      <<>>,                                                           \* (blank)
      <<"p", "u", "t", " ", "{", "{", "a", "}", "}">>,                \* put {{a}}
      <<":", "9">>,                                                   \* :9
      <<"{", "{", "k", "}", "}", ":", " ", "{", "{", "a", "}", "}">>, \* {{k}}: {{a}}
      <<"K", ":", " ", "v">> }                                        \* K: v

LexLineHeaders == LexLineOf(HeaderDocLines)

NextHeaders ==
    \/ LexLineHeaders
    \/ LexEnd
    \/ ParseLeading
    \/ ParseRequest
    \/ ParseEnd
    \/ ExecuteBegin
    \/ ExecuteRequest
    \/ TransportReturn
    \/ ExecuteEnd

SpecHeaders == Init /\ [][NextHeaders]_vars_all

---------------------------------------------------------------------------
(* The process: main reads the file, runs the three stages and exits *)

\* lines that make each stage fail, and lines that make none fail
MainLines ==
    { <<"@", "a">>,                             \* @a         (tokenize fails)
      <<"G", "E", "T">>,                        \* GET        (parse fails)
      <<"G", "E", "T", " ", ":", "1">>,         \* GET :1
      <<":", "{", "{", "x", "}", "}">>,         \* :{{x}}     (execute fails)
      <<"#", "#", "#">> }                       \* ###

\* the flags of the command line
MainOptions ==
    [dry_run : BOOLEAN,
     request_index : {None, Some(0), Some(1)},
     method_filter : {None, Some(POST), Some(<<"B", "A", "D">>)}]

\* fs::read_to_string: the contents, or exit(1)
ReadFile ==
    /\ pc = "read"
    /\ \E read \in BOOLEAN :
        IF read
        THEN /\ pc' = "lex"
             /\ UNCHANGED <<result, exit_code>>
        ELSE /\ pc' = "exited"
             /\ result' = "ReadError"
             /\ exit_code' = 1
    /\ UNCHANGED <<input, tokens, in_body, has_request_line, pos, variables,
                   requests, opts, vars, to_run, k, calls, responses, text, out>>

LexLineMain == LexLineOf(MainLines)

ParseEndMain == ParseEndOf(MainOptions)

\* ExitParseError with the status of a run that went well
ExitParseErrorZero ==
    /\ pc = "done"
    /\ result = "ParseError"
    /\ pc' = "exited"
    /\ exit_code' = 0
    /\ UNCHANGED <<input, tokens, in_body, has_request_line, pos, variables,
                   requests, opts, vars, to_run, k, calls, responses, result,
                   text, out>>

\* main: tokenize returned Err
ExitLexError ==
    /\ pc = "done"
    /\ result = "LexError"
    /\ pc' = "exited"
    /\ exit_code' = 1
    /\ UNCHANGED <<input, tokens, in_body, has_request_line, pos, variables,
                   requests, opts, vars, to_run, k, calls, responses, result,
                   text, out>>

\* main: parse returned Err
ExitParseError ==
    /\ pc = "done"
    /\ result = "ParseError"
    /\ pc' = "exited"
    /\ exit_code' = 1
    /\ UNCHANGED <<input, tokens, in_body, has_request_line, pos, variables,
                   requests, opts, vars, to_run, k, calls, responses, result,
                   text, out>>

\* main: execute returned Err
ExitExecuteError ==
    /\ pc = "done"
    /\ result \notin {"", "ok", "LexError", "ParseError"}
    /\ pc' = "exited"
    /\ exit_code' = 1
    /\ UNCHANGED <<input, tokens, in_body, has_request_line, pos, variables,
                   requests, opts, vars, to_run, k, calls, responses, result,
                   text, out>>

\* main: execute returned Ok(()), main returns
ExitOk ==
    /\ pc = "done"
    /\ result = "ok"
    /\ pc' = "exited"
    /\ exit_code' = 0
    /\ UNCHANGED <<input, tokens, in_body, has_request_line, pos, variables,
                   requests, opts, vars, to_run, k, calls, responses, result,
                   text, out>>

InitMain ==
    /\ input = <<>>
    /\ pc = "read"
    /\ tokens = NewLexer.tokens
    /\ in_body = NewLexer.in_body
    /\ has_request_line = NewLexer.has_request_line
    /\ pos = 0
    /\ variables = <<>>
    /\ requests = <<>>
    /\ opts = NoOptions
    /\ vars = EmptyMap
    /\ to_run = <<>>
    /\ k = 0
    /\ calls = <<>>
    /\ responses = <<>>
    /\ result = ""
    /\ text = <<>>
    /\ out = Ok(<<>>)
    /\ exit_code = 0

NextMain ==
    \/ ReadFile
    \/ LexLineMain
    \/ LexEnd
    \/ ParseLeading
    \/ ParseRequest
    \/ ParseEndMain
    \/ ExecuteBegin
    \/ ExecuteRequest
    \/ TransportReturn
    \/ ExecuteEnd
    \/ ExitLexError
    \/ ExitParseError
    \/ ExitExecuteError
    \/ ExitOk

SpecMain == InitMain /\ [][NextMain]_vars_all

---------------------------------------------------------------------------
(* tokenize alone, on lines of every kind the lexer tells apart *)

LexLines ==
    { <<"#", "#", "#">>,                        \* ###
      <<" ">>,                                  \* (a space)
      <<"@", "a", "=", "1">>,                   \* @a=1
      <<"@", "a">>,                             \* @a
      <<"@", "=", "1">>,                        \* @=1
      <<"#", " ", "c">>,                        \* # c
      <<"g", "e", "t", " ", ":", "1">>,         \* get :1
      <<"G", "E", "T">>,                        \* GET
      <<":", "9">>,                             \* :9
      <<"K", ":", " ", "v">>,                   \* K: v
      <<" ", "{", "b", "}", " ">> }             \* " {b} "

LexLineLex == LexLineOf(LexLines)

NextLex == LexLineLex

SpecLex == Init /\ [][NextLex]_vars_all

---------------------------------------------------------------------------
(* parse alone, on a token sequence handed to it directly *)

\* one token of every kind, and a Method token that names no method
TokenKinds ==
    { Tok("Separator", <<>>, <<>>, 0),
      Tok("BlankLine", <<>>, <<>>, 0),
      Tok("Variable", <<"a">>, <<"1">>, 0),
      Tok("Comment", <<"c">>, <<>>, 0),
      Tok("Method", GET, <<>>, 0),
      Tok("Method", <<"F", "O", "O">>, <<>>, 0),
      Tok("Url", <<":", "1">>, <<>>, 0),
      Tok("Header", <<"K">>, <<"v">>, 0),
      Tok("BodyLine", <<"{", "b", "}">>, <<>>, 0) }

\* parse is handed up to MaxTokens tokens, the i-th located at line i
InitParse ==
    /\ input = <<>>
    /\ pc = "parse_lead"
    /\ \E n \in 0..MaxTokens :
           \E f \in [1..n -> TokenKinds] :
               tokens = [i \in 1..n |-> [f[i] EXCEPT !.line = i]]
    /\ in_body = FALSE
    /\ has_request_line = FALSE
    /\ pos = 0
    /\ variables = <<>>
    /\ requests = <<>>
    /\ opts = NoOptions
    /\ vars = EmptyMap
    /\ to_run = <<>>
    /\ k = 0
    /\ calls = <<>>
    /\ responses = <<>>
    /\ result = ""
    /\ text = <<>>
    /\ out = Ok(<<>>)
    /\ exit_code = 0

\* parse: no token is left, Ok(ReqxFile)
ParseReturn == ParseEndOf({NoOptions})

NextParse ==
    \/ ParseLeading
    \/ ParseRequest
    \/ ParseReturn

SpecParse == InitParse /\ [][NextParse]_vars_all

---------------------------------------------------------------------------
(* execute on a file handed to it directly *)

Var(name, value) == [name |-> name, value |-> value, line |-> 1]
Hdr(key, value) == [key |-> key, value |-> value]
Req(method, url, headers, body) ==
    [comment |-> None, method |-> method, url |-> url, headers |-> headers,
     body |-> body, line |-> 1]

T_A == <<"{", "{", "a", "}", "}">>          \* {{a}}
T_X == <<"{", "{", "x", "}", "}">>          \* {{x}}, x is never defined
T_OPEN == <<"u", "{", "{", "a">>            \* u{{a

ExecRequests ==
    { Req(GET, <<":", "1">>, <<>>, None),
      Req(POST, T_A, <<Hdr(<<"K">>, T_A)>>, Some(T_A)),
      Req(GET, T_X, <<>>, None),
      Req(POST, T_OPEN, <<>>, None),
      Req(GET, <<"u">>, <<Hdr(T_X, <<"v">>)>>, None),
      Req(POST, <<"u">>, <<Hdr(<<"K">>, T_OPEN)>>, None),
      Req(POST, <<"u">>, <<>>, Some(T_X)),
      Req(GET, <<"u">>, <<Hdr(<<"K">>, <<"v">>), Hdr(<<"K">>, T_A)>>, None) }

ExecVariables ==
    { <<Var(<<"a">>, <<":", "2">>)>>,
      <<Var(<<"a">>, <<":", "2">>),
        Var(<<"a">>, <<"h", "t", "t", "p", ":", "/", "/", "h">>)>> }

ExecOptions ==
    [dry_run : BOOLEAN,
     request_index : {None} \cup {Some(i) : i \in 0..(MaxReqs + 1)},
     method_filter : {None, Some(GET), Some(<<"p", "o", "s", "t">>),
                      Some(<<"B", "A", "D">>)}]

InitExec ==
    /\ input = <<>>
    /\ pc = "exec"
    /\ tokens = <<>>
    /\ in_body = FALSE
    /\ has_request_line = FALSE
    /\ pos = 0
    /\ variables \in ExecVariables
    /\ requests \in UNION {[1..n -> ExecRequests] : n \in 0..MaxReqs}
    /\ opts \in ExecOptions
    /\ vars = EmptyMap
    /\ to_run = <<>>
    /\ k = 0
    /\ calls = <<>>
    /\ responses = <<>>
    /\ result = ""
    /\ text = <<>>
    /\ out = Ok(<<>>)
    /\ exit_code = 0

NextExec ==
    \/ ExecuteBegin
    \/ ExecuteRequest
    \/ TransportReturn
    \/ ExecuteEnd

SpecExec == InitExec /\ [][NextExec]_vars_all

---------------------------------------------------------------------------
(* execute on files of requests of three methods, some of which cannot be  *)
(* interpolated, under every combination of its flags                      *)

SelectRequests ==
    { Req(GET, <<":", "1">>, <<>>, None),
      Req(POST, T_A, <<Hdr(<<"K">>, T_A)>>, Some(T_A)),
      Req(PUT, <<"u">>, <<>>, Some(<<"b">>)),
      Req(GET, T_X, <<>>, None),
      Req(POST, <<"u">>, <<Hdr(<<"K">>, T_OPEN)>>, None) }

InitSelect ==
    /\ input = <<>>
    /\ pc = "exec"
    /\ tokens = <<>>
    /\ in_body = FALSE
    /\ has_request_line = FALSE
    /\ pos = 0
    /\ variables = <<Var(<<"a">>, <<":", "2">>)>>
    /\ requests \in UNION {[1..n -> SelectRequests] : n \in 0..MaxReqs}
    /\ opts \in ExecOptions
    /\ vars = EmptyMap
    /\ to_run = <<>>
    /\ k = 0
    /\ calls = <<>>
    /\ responses = <<>>
    /\ result = ""
    /\ text = <<>>
    /\ out = Ok(<<>>)
    /\ exit_code = 0

SpecSelect == InitSelect /\ [][NextExec]_vars_all

---------------------------------------------------------------------------
(* execute on files whose variables have values that contain `{{`          *)

T_B == <<"{", "{", "b", "}", "}">>          \* {{b}}

NestedVariables ==
    { <<Var(<<"a">>, T_X)>>,
      <<Var(<<"a">>, T_B), Var(<<"b">>, <<"v">>)>>,
      <<Var(<<"a">>, T_A)>>,
      <<Var(<<"a">>, <<"v">>), Var(<<"b">>, T_A), Var(<<"a">>, T_OPEN)>> }

NestedRequests ==
    { Req(GET, T_A, <<>>, None),
      Req(POST, <<"u">>, <<Hdr(<<"K">>, T_A)>>, Some(<<"w">> \o T_A)),
      Req(POST, T_B, <<>>, Some(T_B \o T_A)),
      Req(GET, <<"u">>, <<>>, None) }

InitNested ==
    /\ input = <<>>
    /\ pc = "exec"
    /\ tokens = <<>>
    /\ in_body = FALSE
    /\ has_request_line = FALSE
    /\ pos = 0
    /\ variables \in NestedVariables
    /\ requests \in UNION {[1..n -> NestedRequests] : n \in 0..MaxReqs}
    /\ opts \in ExecOptions
    /\ vars = EmptyMap
    /\ to_run = <<>>
    /\ k = 0
    /\ calls = <<>>
    /\ responses = <<>>
    /\ result = ""
    /\ text = <<>>
    /\ out = Ok(<<>>)
    /\ exit_code = 0

SpecNested == InitNested /\ [][NextExec]_vars_all

---------------------------------------------------------------------------
(* tokenize, parse and execute, each called on an argument of its own and  *)
(* run to its end: tokenize on a document, parse on a token sequence,      *)
(* execute on a file. Every step of the program is taken when it can be,   *)
(* and every call of the transport returns.                                *)

MaxTerm == 3

TermLines ==
    { <<"#", "#", "#">>,                        \* ###
      <<>>,                                     \* (empty)
      <<"#", " ", "c">>,                        \* # c
      <<":", "1">>,                             \* :1
      <<"K", ":", " ", "v">> }                  \* K: v

\* tokenize: one more line of a document of at most MaxTerm lines
LexLineTerm == Len(input) < MaxTerm /\ LexLineOf(TermLines)

\* tokenize is called
InitTokenize == Init

\* parse is called on a sequence of at most MaxTerm tokens
InitParseTerm ==
    /\ input = <<>>
    /\ pc = "parse_lead"
    /\ \E n \in 0..MaxTerm :
           \E f \in [1..n -> TokenKinds] :
               tokens = [i \in 1..n |-> [f[i] EXCEPT !.line = i]]
    /\ in_body = FALSE
    /\ has_request_line = FALSE
    /\ pos = 0
    /\ variables = <<>>
    /\ requests = <<>>
    /\ opts = NoOptions
    /\ vars = EmptyMap
    /\ to_run = <<>>
    /\ k = 0
    /\ calls = <<>>
    /\ responses = <<>>
    /\ result = ""
    /\ text = <<>>
    /\ out = Ok(<<>>)
    /\ exit_code = 0

\* execute is called on a file of fewer than MaxTerm requests
InitExecuteTerm ==
    /\ input = <<>>
    /\ pc = "exec"
    /\ tokens = <<>>
    /\ in_body = FALSE
    /\ has_request_line = FALSE
    /\ pos = 0
    /\ variables = <<Var(<<"a">>, <<":", "2">>)>>
    /\ requests \in UNION {[1..n -> SelectRequests] : n \in 0..(MaxTerm - 1)}
    /\ opts \in ExecOptions
    /\ vars = EmptyMap
    /\ to_run = <<>>
    /\ k = 0
    /\ calls = <<>>
    /\ responses = <<>>
    /\ result = ""
    /\ text = <<>>
    /\ out = Ok(<<>>)
    /\ exit_code = 0

InitTerm == InitTokenize \/ InitParseTerm \/ InitExecuteTerm

ProgramStep ==
    \/ LexLineTerm
    \/ LexEnd
    \/ ParseLeading
    \/ ParseRequest
    \/ ParseReturn
    \/ ExecuteBegin
    \/ ExecuteRequest
    \/ ExecuteEnd

NextTerm == ProgramStep \/ TransportReturn

SpecTerm ==
    /\ InitTerm
    /\ [][NextTerm]_vars_all
    /\ WF_vars_all(ProgramStep)
    /\ WF_vars_all(TransportReturn)

---------------------------------------------------------------------------
(* interpolate on a text handed to it directly *)

Pieces ==
    { T_A, <<"{", "{">>, <<"}", "}">>, <<"{">>, <<"}">>, <<"a">>, <<" ">> }

RECURSIVE Concat(_)
Concat(ps) == IF ps = <<>> THEN <<>> ELSE Head(ps) \o Concat(Tail(ps))

Texts == {Concat(ps) : ps \in UNION {[1..n -> Pieces] : n \in 0..MaxPieces}}

InterpEnvs ==
    { EmptyMap,
      Insert(EmptyMap, <<"a">>, <<"v", "w">>),
      Insert(EmptyMap, <<"a">>, T_A) }

\* a call of interpolate
Interpolate ==
    /\ pc = "interp"
    /\ out' = interpolate(text, vars)
    /\ pc' = "interp_done"
    /\ UNCHANGED <<input, tokens, in_body, has_request_line, pos, variables,
                   requests, opts, vars, to_run, k, calls, responses, result, text,
                   exit_code>>

InitInterp ==
    /\ input = <<>>
    /\ pc = "interp"
    /\ tokens = <<>>
    /\ in_body = FALSE
    /\ has_request_line = FALSE
    /\ pos = 0
    /\ variables = <<>>
    /\ requests = <<>>
    /\ opts = NoOptions
    /\ vars \in InterpEnvs
    /\ to_run = <<>>
    /\ k = 0
    /\ calls = <<>>
    /\ responses = <<>>
    /\ result = ""
    /\ text \in Texts
    /\ out = Ok(<<>>)
    /\ exit_code = 0

NextInterp == Interpolate

SpecInterp == InitInterp /\ [][NextInterp]_vars_all

---------------------------------------------------------------------------
(* What a text says, read off the text itself: where its spans are.        *)

OpenAt(s, i) == i + 1 <= Len(s) /\ s[i] = "{" /\ s[i + 1] = "{"
CloseAt(s, i) == i + 1 <= Len(s) /\ s[i] = "}" /\ s[i + 1] = "}"

Least(S) == IF S = {} THEN 0 ELSE CHOOSE i \in S : \A j \in S : i <= j

\* the first `{{` of s, and the first `}}` of s at or after position from
FirstOpen(s) == Least({i \in 1..Len(s) : OpenAt(s, i)})
FirstClose(s, from) == Least({i \in from..Len(s) : CloseAt(s, i)})

\* the error of the first span of s that is unclosed or names no variable of
\* env, "" when every span is closed and defined
RECURSIVE SpanError(_, _)
SpanError(s, env) ==
    LET i == FirstOpen(s)
        j == FirstClose(s, i + 2)
    IN  IF i = 0 THEN ""
        ELSE IF j = 0 THEN "Unclosed"
        ELSE IF Trim(SubSeq(s, i + 2, j - 1)) \notin DOMAIN env THEN "Undefined"
        ELSE SpanError(From(s, j + 2), env)

\* s with every span replaced by the value of its name, the rest kept
RECURSIVE Substituted(_, _)
Substituted(s, env) ==
    LET i == FirstOpen(s)
        j == FirstClose(s, i + 2)
    IN  IF i = 0 THEN s
        ELSE SubSeq(s, 1, i - 1) \o env[Trim(SubSeq(s, i + 2, j - 1))]
                 \o Substituted(From(s, j + 2), env)

---------------------------------------------------------------------------
(* C7: interpolate(s, env) returns s unchanged when s contains no `{{`;    *)
(* when every span of s is closed and names a variable of env it succeeds, *)
(* and whenever it succeeds its value is s with every closed span replaced *)
(* by env[trimmed name] and every character outside the spans kept, in     *)
(* order.                                                                  *)
C7_InterpolateReplacesSpans ==
    pc = "interp_done" =>
        /\ FirstOpen(text) = 0 => out = Ok(text)
        /\ SpanError(text, vars) = "" => out.err = ""
        /\ out.err = "" => out.val = Substituted(text, vars)

\* two spans with padded names were replaced and the text around them kept
C7_Witness ==
    /\ pc = "interp_done"
    /\ text = <<"a">> \o T_A \o <<" ">> \o T_A
    /\ vars = Insert(EmptyMap, <<"a">>, <<"v", "w">>)
    /\ out = Ok(<<"a", "v", "w", " ", "v", "w">>)

---------------------------------------------------------------------------
(* What a run of execute is asked to do, read off its arguments.           *)

\* the 0-based positions of the requests the arguments select
Chosen ==
    {i \in 0..(Len(requests) - 1) :
        /\ opts.request_index.some => i = opts.request_index.val - 1
        /\ opts.method_filter.some =>
               requests[i + 1].method = ToUpper(opts.method_filter.val)}

RECURSIVE Ascending(_)
Ascending(S) ==
    IF S = {} THEN <<>>
    ELSE LET m == CHOOSE i \in S : \A j \in S : i <= j
         IN  <<m>> \o Ascending(S \ {m})

SelectedPositions == Ascending(Chosen)

\* the position of the request each call was made for
CalledPositions == [i \in 1..Len(calls) |-> calls[i].req]

\* the texts of a request in the order execute_request interpolates them
RECURSIVE HeaderTexts(_)
HeaderTexts(hs) ==
    IF hs = <<>> THEN <<>>
    ELSE <<Head(hs).key, Head(hs).value>> \o HeaderTexts(Tail(hs))

RequestTexts(req) ==
    <<req.url>> \o HeaderTexts(req.headers)
        \o (IF req.body.some THEN <<req.body.val>> ELSE <<>>)

\* the error of the first text of the request that has one, "" when none has
RequestError(req, env) ==
    LET ts == RequestTexts(req)
        bad == {i \in 1..Len(ts) : SpanError(ts[i], env) # ""}
    IN  IF bad = {} THEN "" ELSE SpanError(ts[Least(bad)], env)

---------------------------------------------------------------------------
(* C4: without dry-run the transport is called once per selected request,  *)
(* in document order of the selected requests, and a call is made only     *)
(* when every earlier call has returned; a run that ends without error has *)
(* called it for every selected request.                                   *)
C4_SequentialCalls ==
    ~opts.dry_run =>
        /\ Len(calls) - Len(responses) \in {0, 1}
        /\ (pc = "call") = (Len(calls) = Len(responses) + 1)
        /\ Len(calls) <= Len(SelectedPositions)
        /\ CalledPositions = SubSeq(SelectedPositions, 1, Len(calls))
        /\ (pc = "done" /\ result = "ok") =>
               /\ Len(calls) = Len(SelectedPositions)
               /\ Len(responses) = Len(calls)

\* three requests were sent, one after the other, and the run ended well
C4_Witness ==
    /\ pc = "done"
    /\ result = "ok"
    /\ ~opts.dry_run
    /\ CalledPositions = <<0, 1, 2>>
    /\ responses = <<"ok", "ok", "ok">>

(* C5: when the transport fails on a call, execute ends with that failure   *)
(* and no later call is made: the failed call is the last one, the calls    *)
(* are those of the first k selected requests, k the number of calls.       *)
C5_FailFast ==
    \A i \in 1..Len(responses) :
        responses[i] = "fail" =>
            /\ i = Len(calls)
            /\ pc = "done"
            /\ result = "TransportError"
            /\ CalledPositions = SubSeq(SelectedPositions, 1, i)

\* the second of three selected requests failed and the third was not sent
C5_Witness ==
    /\ pc = "done"
    /\ responses = <<"ok", "fail">>
    /\ Len(SelectedPositions) = 3
    /\ Len(calls) = 2

(* C8: execute ends with the undefined-variable error when the first span   *)
(* of the request that cannot be resolved is closed and names no variable,  *)
(* and with the unclosed-interpolation error when it is a `{{` with no      *)
(* `}}` after it; the request holding that span is not sent, and no request *)
(* with such a span is ever sent.                                          *)
C8_InterpolationErrors ==
    pc \in {"loop", "call", "done"} =>
        /\ \A i \in 1..Len(calls) :
               RequestError(requests[calls[i].req + 1], vars) = ""
        /\ \A i \in 1..k :
               RequestError(requests[to_run[i] + 1], vars) = ""
        /\ result \in {"Undefined", "Unclosed"} =>
               /\ pc = "done"
               /\ k < Len(to_run)
               /\ RequestError(requests[to_run[k + 1] + 1], vars) = result
               /\ Len(calls) = (IF opts.dry_run THEN 0 ELSE k)
        /\ (pc = "done" /\ result = "ok") => k = Len(to_run)

\* a request was sent, then the next one had a `{{` that is never closed
C8_Witness ==
    /\ pc = "done"
    /\ result = "Unclosed"
    /\ ~opts.dry_run
    /\ Len(calls) = 1
    /\ requests[to_run[2] + 1].url = T_OPEN

(* C9: the URL the transport receives is the interpolated URL with          *)
(* http://localhost put before it when the interpolated URL starts with     *)
(* `:`, and the interpolated URL itself otherwise.                          *)
C9_UrlShorthand ==
    \A i \in 1..Len(calls) :
        LET interpolated_url == Substituted(requests[calls[i].req + 1].url, vars)
        IN  IF interpolated_url # <<>> /\ interpolated_url[1] = ":"
            THEN calls[i].url = LOCALHOST \o interpolated_url
            ELSE calls[i].url = interpolated_url

\* a template without a leading `:` whose value starts with `:` was expanded
C9_Witness ==
    \E i \in 1..Len(calls) :
        /\ requests[calls[i].req + 1].url = T_A
        /\ calls[i].url = LOCALHOST \o <<":", "2">>

(* C10: with requestIndex = 0 or requestIndex > N execute ends with the     *)
(* invalid-index error and calls nothing; with 1 <= requestIndex <= N the   *)
(* candidates are exactly the request at that position.                     *)
C10_RequestIndex ==
    (opts.request_index.some /\ pc # "exec") =>
        LET idx == opts.request_index.val
        IN  IF idx = 0 \/ idx > Len(requests)
            THEN /\ pc = "done"
                 /\ result = "InvalidIndex"
                 /\ calls = <<>>
            ELSE /\ result # "InvalidIndex"
                 /\ \A i \in 1..Len(calls) : calls[i].req = idx - 1
                 /\ ~opts.method_filter.some => to_run = <<idx - 1>>
                 /\ (opts.method_filter.some /\ result # "InvalidFilter") =>
                        to_run \in {<<>>, <<idx - 1>>}

\* an index one past the last request was refused
C10_Witness ==
    /\ pc = "done"
    /\ Len(requests) = 2
    /\ opts.request_index = Some(3)
    /\ result = "InvalidIndex"
    /\ calls = <<>>

(* C11: with a method filter that is none of the seven method names,       *)
(* letter case ignored, execute ends with an error and the transport is    *)
(* never called, whatever requests the file holds: the invalid-filter      *)
(* error, or the invalid-index error when the index is refused first.      *)
SameLetter(c, d) ==
    \/ c = d
    \/ c \in DOMAIN UpperMap /\ UpperMap[c] = d
    \/ d \in DOMAIN UpperMap /\ UpperMap[d] = c

IsMethodName(f) ==
    \E m \in HTTP_METHODS :
        Len(m) = Len(f) /\ \A i \in 1..Len(m) : SameLetter(f[i], m[i])

IndexInRange ==
    opts.request_index.some =>
        (1 <= opts.request_index.val /\ opts.request_index.val <= Len(requests))

C11_UnknownMethodFilter ==
    (opts.method_filter.some /\ ~IsMethodName(opts.method_filter.val)) =>
        /\ calls = <<>>
        /\ pc \in {"exec", "done"}
        /\ pc = "done" =>
               result = (IF IndexInRange THEN "InvalidFilter" ELSE "InvalidIndex")

\* two requests that could be sent, and a filter that names no method
C11_Witness ==
    /\ pc = "done"
    /\ result = "InvalidFilter"
    /\ ~opts.dry_run
    /\ opts.method_filter = Some(<<"B", "A", "D">>)
    /\ Len(requests) = 2
    /\ \A i \in 1..2 : RequestError(requests[i], vars) = ""

(* C12: with a method filter that names a method and matches none of the   *)
(* candidate requests, execute ends well and the transport is never        *)
(* called.                                                                 *)
C12_NoMatchIsSuccess ==
    (opts.method_filter.some /\ IsMethodName(opts.method_filter.val)
        /\ IndexInRange /\ Chosen = {}) =>
        /\ calls = <<>>
        /\ pc \in {"exec", "done"}
        /\ pc = "done" => result = "ok"

\* three GET requests and the filter post: nothing ran, the run ended well
C12_Witness ==
    /\ pc = "done"
    /\ result = "ok"
    /\ ~opts.dry_run
    /\ opts.method_filter = Some(<<"p", "o", "s", "t">>)
    /\ Len(requests) = 3
    /\ \A i \in 1..3 : requests[i].method = GET
    /\ calls = <<>>

(* C13: in a dry run the transport is never called; the selected requests  *)
(* are interpolated one after the other, each one that interpolates is     *)
(* skipped and the run goes on to the next, ending well after the last     *)
(* unless an interpolation fails.                                          *)
C13_DryRunNeverCalls ==
    opts.dry_run =>
        /\ calls = <<>>
        /\ responses = <<>>
        /\ pc # "call"
        /\ result # "TransportError"
        /\ pc = "loop" => (to_run = SelectedPositions /\ k <= Len(to_run))
        /\ \A i \in 1..k : RequestError(requests[to_run[i] + 1], vars) = ""
        /\ result \in {"Undefined", "Unclosed"} =>
               /\ k < Len(to_run)
               /\ RequestError(requests[to_run[k + 1] + 1], vars) = result
        /\ (pc = "done" /\ result = "ok") =>
               (to_run = SelectedPositions /\ k = Len(to_run))

\* a dry run went through three requests and called nothing
C13_Witness ==
    /\ pc = "done"
    /\ result = "ok"
    /\ opts.dry_run
    /\ to_run = <<0, 1, 2>>
    /\ k = 3
    /\ calls = <<>>

---------------------------------------------------------------------------
(* What a document says, read off its lines.                               *)

IsSeparatorLine(l) == Trim(l) = <<"#", "#", "#">>
IsBlankLine(l) == Trim(l) = <<>>
IsVariableLine(l) == StartsWith(Trim(l), <<"@">>)
IsCommentLine(l) == StartsWith(Trim(l), <<"#">>) /\ ~IsSeparatorLine(l)
HasMethodWord(l) == ToUpper(FirstWord(l)) \in HTTP_METHODS

\* `METHOD url` or a bare url
IsRequestLine(l) ==
    \/ HasMethodWord(l) /\ Trim(From(Trim(l), Len(FirstWord(l)) + 1)) # <<>>
    \/ ~HasMethodWord(l) /\ IsUrlPrefixed(Trim(l))

\* a line of body text: no separator, variable, comment or request line
IsTextLine(l) ==
    ~(IsSeparatorLine(l) \/ IsBlankLine(l) \/ IsVariableLine(l)
        \/ IsCommentLine(l) \/ HasMethodWord(l) \/ IsUrlPrefixed(Trim(l)))

IsHeaderLine(l) == IsTextLine(l) /\ Find(Trim(l), ":") > 1
                     /\ Find(SubSeq(Trim(l), 1, Find(Trim(l), ":") - 1), " ") = 0

\* the name and the value of a variable line
VariableName(l) == Trim(SubSeq(Trim(l), 2, Find(Trim(l), "=") - 1))
VariableValue(l) == Trim(From(Trim(l), Find(Trim(l), "=") + 1))

(* The number of request blocks of the lines ls from line i on, -1 when     *)
(* they are not request blocks separated by `###` lines.  A block is blank *)
(* lines, a request line, header lines and, after a blank line, body text; *)
(* st is the part of the block line i is read in and n the number of       *)
(* request lines before it.  allow names what else a block may hold:       *)
(*   "lead"  variable lines before its request line                        *)
(*   "decl"  variable lines after its request line, headers and body       *)
(*   "gap"   single blank lines between two lines of its body              *)
RECURSIVE Blocks(_, _, _, _, _)
Blocks(ls, i, st, n, allow) ==
    IF i > Len(ls) THEN (IF st = "start" THEN -1 ELSE n)
    ELSE LET l == ls[i]
             to(next) == Blocks(ls, i + 1, next, n, allow)
         IN  IF IsSeparatorLine(l)
             THEN (IF st = "start" THEN -1 ELSE to("start"))
             ELSE IF st = "start"
             THEN (CASE IsBlankLine(l) -> to("start")
                     [] IsVariableLine(l) /\ "lead" \in allow -> to("start")
                     [] IsRequestLine(l) -> Blocks(ls, i + 1, "head", n + 1, allow)
                     [] OTHER -> -1)
             ELSE IF IsVariableLine(l)
             THEN (IF "decl" \in allow THEN to("decl") ELSE -1)
             ELSE IF st = "head"
             THEN (CASE IsHeaderLine(l) -> to("head")
                     [] IsBlankLine(l) -> to("open")
                     [] OTHER -> -1)
             ELSE IF st = "open"
             THEN (CASE IsTextLine(l) -> to("body")
                     [] IsBlankLine(l) -> to("tail")
                     [] OTHER -> -1)
             ELSE IF st = "body"
             THEN (CASE IsTextLine(l) -> to("body")
                     [] IsBlankLine(l) -> to("gap")
                     [] OTHER -> -1)
             ELSE IF st = "gap"
             THEN (CASE IsTextLine(l) /\ "gap" \in allow -> to("body")
                     [] IsBlankLine(l) -> to("tail")
                     [] OTHER -> -1)
             ELSE (IF IsBlankLine(l) THEN to(st) ELSE -1)

BlockCount(ls, allow) == Blocks(ls, 1, "start", 0, allow)

\* the line numbers of the request lines of a document made of blocks
RequestLineNumbers(ls) == Ascending({i \in 1..Len(ls) : IsRequestLine(ls[i])})

VariableLineNumbers(ls) == {i \in 1..Len(ls) : IsVariableLine(ls[i])}

ParseReturned == pc \in {"exec", "loop", "call", "done"} /\ result # "LexError"

---------------------------------------------------------------------------
(* C1: for a document of N request blocks separated by `###` lines, each   *)
(* a request line, header lines and a body, tokenize and parse succeed and *)
(* return N requests, in the order of the blocks.                          *)
C1_OneRequestPerBlock ==
    (pc \in {"exec", "loop", "call", "done"}
        /\ BlockCount(input, {"gap"}) >= 1) =>
        /\ result \notin {"LexError", "ParseError"}
        /\ Len(requests) = BlockCount(input, {"gap"})
        /\ [i \in 1..Len(requests) |-> requests[i].line] = RequestLineNumbers(input)

(* C2: a request whose request line has no method word is POST when a body *)
(* was collected for it and GET when none was; a request whose request     *)
(* line has a method word has that method.                                 *)
C2_MethodInference ==
    \A i \in 1..Len(requests) :
        LET l == input[requests[i].line]
        IN  IF HasMethodWord(l)
            THEN requests[i].method = ToUpper(FirstWord(l))
            ELSE requests[i].method = (IF requests[i].body.some THEN POST ELSE GET)

\* parse returned a bare URL without a body, a bare URL with a body, and no more
C2_Witness ==
    /\ pc = "exec"
    /\ Len(requests) = 2
    /\ ~HasMethodWord(input[requests[1].line])
    /\ ~HasMethodWord(input[requests[2].line])
    /\ requests[1].body = None /\ requests[1].method = GET
    /\ requests[2].body # None /\ requests[2].method = POST

(* C3: when a variable is defined more than once in a document of request  *)
(* blocks, also at the head of a later block, tokenize, parse and execute  *)
(* succeed (unless the transport fails) and every request is sent with the *)
(* value of the last definition.                                           *)
C3_LastDefinitionWins ==
    (pc = "done"
        /\ BlockCount(input, {"lead"}) >= 1
        /\ Cardinality(VariableLineNumbers(input)) >= 2) =>
        LET last == CHOOSE i \in VariableLineNumbers(input) :
                        \A j \in VariableLineNumbers(input) : j <= i
            env == Insert(EmptyMap, VariableName(input[last]),
                          VariableValue(input[last]))
        IN  /\ result \in {"ok", "TransportError"}
            /\ \A i \in 1..Len(calls) :
                   calls[i].url =
                       expand_url(Substituted(requests[calls[i].req + 1].url, env))

(* C6: when a request block is followed by extraction declarations and a   *)
(* second block references the extracted name, executing the document      *)
(* sends both requests: unless the transport fails, the run ends well      *)
(* with two calls.                                                         *)
C6_ExtractionChain ==
    (pc = "done"
        /\ BlockCount(input, {"decl"}) = 2
        /\ BlockCount(input, {}) = -1
        /\ \E i \in VariableLineNumbers(input) : VariableName(input[i]) = <<"a">>
        /\ input[Len(input)] = <<"G", "E", "T", " ", ":", "{", "{", "a", "}", "}">>) =>
        /\ result \in {"ok", "TransportError"}
        /\ result = "ok" => Len(calls) = 2

---------------------------------------------------------------------------
(* C14: each request parse returns carries the text of the nearest comment *)
(* line between the request line before its own (the start of the file for *)
(* the first request) and its own request line, and no comment when there  *)
(* is no such line; the same for a request line with a method word and for *)
(* a bare URL.                                                             *)
NearestComment(toks, prev, line) ==
    LET cs == {i \in 1..Len(toks) :
                  toks[i].type = "Comment" /\ prev < toks[i].line /\ toks[i].line < line}
    IN  IF cs = {} THEN None
        ELSE Some(toks[CHOOSE i \in cs : \A j \in cs : j <= i].a)

C14_NearestComment ==
    (ParseReturned /\ result # "ParseError") =>
        \A i \in 1..Len(requests) :
            requests[i].comment =
                NearestComment(tokens,
                               IF i = 1 THEN 0 ELSE requests[i - 1].line,
                               requests[i].line)

---------------------------------------------------------------------------
(* What a document says about the body of a request, read off its lines.   *)

\* the lines that end a body
IsBoundaryLine(l) ==
    IsSeparatorLine(l) \/ IsVariableLine(l) \/ IsCommentLine(l) \/ HasMethodWord(l)

\* the blank line that opens the body of the request at line r: the first
\* blank line after r when only header lines lie between, 0 when there is none
OpeningBlank(ls, r) ==
    LET bs == {j \in (r + 1)..Len(ls) : IsBlankLine(ls[j])}
        o == Least(bs)
    IN  IF o # 0 /\ \A j \in (r + 1)..(o - 1) : IsHeaderLine(ls[j]) THEN o ELSE 0

\* the line before which the body opened at line o ends: the first line
\* after o that B holds of, or the line after the last
BodyEnd(ls, o, B(_)) ==
    LET es == {j \in (o + 1)..Len(ls) : B(ls[j])}
    IN  IF es = {} THEN Len(ls) + 1 ELSE Least(es)

\* the lines o+1 .. e-1 without the blank lines at their end, joined
BodyText(ls, o, e) ==
    LET full == {j \in (o + 1)..(e - 1) : ~IsBlankLine(ls[j])}
    IN  IF full = {} THEN None
        ELSE LET last == CHOOSE j \in full : \A h \in full : h <= j
             IN  Some(Join([j \in 1..(last - o) |->
                               IF IsBlankLine(ls[o + j]) THEN <<>> ELSE ls[o + j]]))

(* C15: the body of a request whose request line and headers are followed  *)
(* by a blank line is the text from the line after that blank line up to   *)
(* the next separator, variable, comment or method line, or the end of the *)
(* file: a line starting with `#` or with a method word ends the body and  *)
(* is not part of it.                                                      *)
C15_BodyBoundaries ==
    (ParseReturned /\ result # "ParseError") =>
        \A i \in 1..Len(requests) :
            LET o == OpeningBlank(input, requests[i].line)
            IN  o # 0 =>
                    requests[i].body =
                        BodyText(input, o, BodyEnd(input, o, IsBoundaryLine))

---------------------------------------------------------------------------
(* What a document of leading variable lines, one request line and header  *)
(* lines says, read off its lines.                                         *)

\* the line of the request line when the document is variable lines (at
\* least one) and blank lines, one request line, and header lines (at least
\* one) up to its end; 0 otherwise
HeaderDocRequestLine(ls) ==
    Least({r \in 1..(Len(ls) - 1) :
              /\ \A j \in 1..(r - 1) : IsVariableLine(ls[j]) \/ IsBlankLine(ls[j])
              /\ \E j \in 1..(r - 1) : IsVariableLine(ls[j])
              /\ IsRequestLine(ls[r])
              /\ \A j \in (r + 1)..Len(ls) : IsHeaderLine(ls[j])})

\* the environment the variable lines before line r define: for each name
\* the value of the last line that defines it
EnvBefore(ls, r) ==
    LET defs == {j \in 1..(r - 1) : IsVariableLine(ls[j])}
    IN  [n \in {VariableName(ls[j]) : j \in defs} |->
            VariableValue(ls[CHOOSE j \in defs :
                                /\ VariableName(ls[j]) = n
                                /\ \A h \in defs : VariableName(ls[h]) = n => h <= j])]

\* the method and the URL template a request line says
LineMethod(l) == IF HasMethodWord(l) THEN ToUpper(FirstWord(l)) ELSE GET
LineUrl(l) ==
    IF HasMethodWord(l) THEN Trim(From(Trim(l), Len(FirstWord(l)) + 1)) ELSE Trim(l)

\* the key and the value a header line says
LineKey(l) == Trim(SubSeq(Trim(l), 1, Find(Trim(l), ":") - 1))
LineValue(l) == Trim(From(Trim(l), Find(Trim(l), ":") + 1))

\* the texts of the request at line r in the order they are sent, and the
\* error of the first of them that has one
LineTexts(ls, r) ==
    <<LineUrl(ls[r])>> \o
        Concat([j \in 1..(Len(ls) - r) |-> <<LineKey(ls[r + j]), LineValue(ls[r + j])>>])

LineError(ls, r, env) ==
    LET ts == LineTexts(ls, r)
        bad == {i \in 1..Len(ts) : SpanError(ts[i], env) # ""}
    IN  IF bad = {} THEN "" ELSE SpanError(ts[Least(bad)], env)

(* C16: for a document of leading variable lines, one request line and     *)
(* header lines, whose `{{..}}` all name a defined variable, execute       *)
(* without flags makes exactly one transport call: its method is the one   *)
(* of the request line (GET for a bare URL), its URL the interpolated and  *)
(* expanded URL, its headers the header lines in their order with key and  *)
(* value interpolated, none dropped, and it has no body.  When a `{{..}}`  *)
(* cannot be resolved the run ends with that error and no call.            *)
C16_OneCallWithHeaders ==
    LET r == HeaderDocRequestLine(input)
        env == EnvBefore(input, r)
    IN  (pc \in {"call", "done"} /\ result # "LexError" /\ r # 0) =>
            IF LineError(input, r, env) # ""
            THEN pc = "done" /\ result = LineError(input, r, env) /\ calls = <<>>
            ELSE /\ result \in {"", "ok", "TransportError"}
                 /\ Len(calls) = 1
                 /\ calls[1].method = LineMethod(input[r])
                 /\ calls[1].url = expand_url(Substituted(LineUrl(input[r]), env))
                 /\ calls[1].headers =
                        [j \in 1..(Len(input) - r) |->
                            <<Substituted(LineKey(input[r + j]), env),
                              Substituted(LineValue(input[r + j]), env)>>]
                 /\ calls[1].body = None

\* one call went out with an interpolated key and a key sent twice
C16_Witness ==
    /\ pc = "done"
    /\ result = "ok"
    /\ Len(calls) = 1
    /\ calls[1].method = PUT
    /\ calls[1].url = <<"u">>
    /\ calls[1].headers = << <<<<"K">>, <<"v">>>>, <<<<"K">>, <<"u">>>> >>
    /\ calls[1].body = None

---------------------------------------------------------------------------
(* The rule that classifies a line, read off the line and the two flags in *)
(* the order Separator, Blank, Variable, Body, Comment, Request, Header,   *)
(* Fallback.                                                               *)

HeaderShaped(l) == Find(Trim(l), ":") # 0 /\ LineKey(l) # <<>> /\ Find(LineKey(l), " ") = 0

RuleOf(l, inBody, seenRequestLine) ==
    IF IsSeparatorLine(l) THEN "Separator"
    ELSE IF IsBlankLine(l) THEN "Blank"
    ELSE IF IsVariableLine(l) THEN "Variable"
    ELSE IF inBody THEN "Body"
    ELSE IF StartsWith(Trim(l), <<"#">>) THEN "Comment"
    ELSE IF ~seenRequestLine /\ (HasMethodWord(l) \/ IsUrlPrefixed(Trim(l))) THEN "Request"
    ELSE IF HeaderShaped(l) THEN "Header"
    ELSE "Fallback"

MalformedVariable(l) == Find(Trim(l), "=") = 0 \/ VariableName(l) = <<>>

LastNonBlankType(toks) ==
    LET idx == {i \in 1..Len(toks) : toks[i].type # "BlankLine"}
    IN  IF idx = {} THEN "" ELSE toks[CHOOSE i \in idx : \A j \in idx : j <= i].type

Outcome(err, toks, inBody, seenRequestLine) ==
    [err |-> err, toks |-> toks, in_body |-> inBody, seen |-> seenRequestLine]

\* what the rule of line l, the n-th line, emits and leaves in the flags
RuleOutcome(l, n, toks, inBody, seen) ==
    LET rule == RuleOf(l, inBody, seen)
        one(type, a, b) == <<Tok(type, a, b, n)>>
    IN  CASE rule = "Separator" -> Outcome(FALSE, one("Separator", <<>>, <<>>), FALSE, FALSE)
          [] rule = "Blank" ->
                Outcome(FALSE, one("BlankLine", <<>>, <<>>),
                        inBody \/ LastNonBlankType(toks) \in {"Header", "Url"}, seen)
          [] rule = "Variable" ->
                IF MalformedVariable(l) THEN Outcome(TRUE, <<>>, inBody, seen)
                ELSE Outcome(FALSE, one("Variable", VariableName(l), VariableValue(l)),
                             FALSE, seen)
          [] rule = "Body" -> Outcome(FALSE, one("BodyLine", l, <<>>), inBody, seen)
          [] rule = "Comment" ->
                Outcome(FALSE, one("Comment", Trim(From(Trim(l), 2)), <<>>), inBody, seen)
          [] rule = "Request" ->
                IF HasMethodWord(l)
                THEN Outcome(FALSE,
                             one("Method", ToUpper(FirstWord(l)), <<>>) \o
                                 (IF LineUrl(l) # <<>> THEN one("Url", LineUrl(l), <<>>)
                                  ELSE <<>>),
                             inBody, TRUE)
                ELSE Outcome(FALSE, one("Url", Trim(l), <<>>), inBody, TRUE)
          [] rule = "Header" ->
                Outcome(FALSE, one("Header", LineKey(l), LineValue(l)), inBody, seen)
          [] OTHER ->
                IF ~seen THEN Outcome(FALSE, one("Url", Trim(l), <<>>), inBody, TRUE)
                ELSE Outcome(FALSE, one("BodyLine", l, <<>>), inBody, seen)

(* C17: whatever the line and the two flags, tokenize emits for the line   *)
(* what the first rule that matches it emits, in the order Separator,      *)
(* Blank, Variable, Body (in body mode), Comment, Request line, Header,    *)
(* Fallback, and leaves the flags as that rule does: in body mode a `#`    *)
(* line, a method line and a `Key: Value` line are emitted verbatim as     *)
(* BodyLine, a `###` line and a `@` line are not.                          *)
C17_Step ==
    (pc = "lex" /\ Len(input') = Len(input) + 1) =>
        \A e \in {RuleOutcome(input'[Len(input')], Len(input'), tokens, in_body,
                               has_request_line)} :
            IF e.err
            THEN /\ pc' = "done"
                 /\ result' = "LexError"
                 /\ tokens' = tokens
            ELSE /\ pc' = "lex"
                 /\ tokens' = tokens \o e.toks
                 /\ in_body' = e.in_body
                 /\ has_request_line' = e.seen

C17_LexerPrecedence == [][C17_Step]_vars_all

\* in body mode a comment line, a method line and a header line were all
\* emitted verbatim as body lines
C17_Witness ==
    /\ input = << <<":", "9">>, <<" ">>, <<"#", " ", "c">>,
                  <<"g", "e", "t", " ", ":", "1">>, <<"K", ":", " ", "v">> >>
    /\ in_body
    /\ [i \in 1..Len(tokens) |-> tokens[i].type] =
           <<"Url", "BlankLine", "BodyLine", "BodyLine", "BodyLine">>
    /\ \A i \in 3..5 : tokens[i].a = input[i]

---------------------------------------------------------------------------
(* C18: the process exits with status 0 exactly when reading the file,     *)
(* tokenize, parse and execute all succeeded, also when the method filter  *)
(* matched no request, and with status 1 when one of them failed; a stage  *)
(* after the one that failed is never started, and the transport is never  *)
(* called when reading, tokenize or parse failed.                          *)
C18_ExitStatus ==
    /\ result \in {"ReadError", "LexError", "ParseError"} =>
           (calls = <<>> /\ to_run = <<>> /\ vars = EmptyMap /\ opts = NoOptions)
    /\ result \in {"ReadError", "LexError"} =>
           (pos = 0 /\ variables = <<>> /\ requests = <<>>)
    /\ result = "ReadError" => (input = <<>> /\ tokens = <<>>)
    /\ result = "LexError" => MalformedVariable(input[Len(input)])
    /\ (result # "" /\ result # "ReadError") => pc \in {"done", "exited"}
    /\ pc = "exited" =>
           /\ result # ""
           /\ exit_code = (IF result = "ok" THEN 0 ELSE 1)
           /\ result = "ok" =>
                  /\ \A i \in 1..Len(input) :
                         IsVariableLine(input[i]) => ~MalformedVariable(input[i])
                  /\ pos = Len(tokens)
                  /\ k = Len(to_run)
                  /\ Len(calls) = (IF opts.dry_run THEN 0 ELSE Len(to_run))
                  /\ responses = [i \in 1..Len(calls) |-> "ok"]

\* status 0 although the filter matched none of the two requests
C18_Witness ==
    /\ pc = "exited"
    /\ exit_code = 0
    /\ ~opts.dry_run
    /\ opts.method_filter = Some(POST)
    /\ Len(requests) = 2
    /\ calls = <<>>

---------------------------------------------------------------------------
(* C19: a document of one request block whose body has single blank lines  *)
(* between lines of text parses into one request, and its body is the text *)
(* of the body lines in order with an empty line for each blank line       *)
(* between them.                                                           *)
C19_BlankInsideBody ==
    (ParseReturned
        /\ BlockCount(input, {"gap"}) = 1
        /\ BlockCount(input, {}) = -1) =>
        /\ result # "ParseError"
        /\ Len(requests) = 1
        /\ requests[1].body =
               BodyText(input, OpeningBlank(input, requests[1].line), Len(input) + 1)

---------------------------------------------------------------------------
(* The lines of a body text, and the BodyLine tokens of a request block.   *)

\* s cut at its newline characters
RECURSIVE SplitLines(_)
SplitLines(s) ==
    LET nl == Find(s, "\n")
    IN  IF nl = 0 THEN <<s>>
        ELSE <<SubSeq(s, 1, nl - 1)>> \o SplitLines(From(s, nl + 1))

IsText(l) == l # <<>>

\* the texts of the BodyLine tokens with a line number after lo and before hi
BodyLineTexts(toks, lo, hi) ==
    LET bl == SelectSeq(toks, LAMBDA t : t.type = "BodyLine" /\ lo < t.line /\ t.line < hi)
    IN  [j \in 1..Len(bl) |-> bl[j].a]

(* C20: when parse returns, the body of each request holds, in order, the  *)
(* text of every BodyLine token tokenize emitted between its request line  *)
(* and the next request line (or the end of the input), also of a body     *)
(* line that directly follows the request line or the last header; a       *)
(* request has no body only when there is no such token.                   *)
C20_NoBodyLineDropped ==
    (ParseReturned /\ result # "ParseError") =>
        \A i \in 1..Len(requests) :
            LET hi == IF i < Len(requests) THEN requests[i + 1].line ELSE Len(input) + 1
                kept == IF requests[i].body.some
                        THEN SelectSeq(SplitLines(requests[i].body.val), IsText)
                        ELSE <<>>
            IN  kept = BodyLineTexts(tokens, requests[i].line, hi)

---------------------------------------------------------------------------
(* What a token sequence says, read off the sequence itself.               *)

TokenTypes(toks) == [i \in 1..Len(toks) |-> toks[i].type]

\* the position of the first token of one of the types, 0 when there is none
FirstOf(toks, types) == Least({i \in 1..Len(toks) : toks[i].type \in types})

\* the type of the first token after position i that is of none of the types
\* in skip, "" when there is none
TypeAfter(toks, i, skip) ==
    LET rest == {j \in (i + 1)..Len(toks) : toks[j].type \notin skip}
    IN  IF rest = {} THEN "" ELSE toks[Least(rest)].type

\* token i may lie in the leading region: a variable, a blank line, or a
\* comment that is not the comment of a request with a method
IsLeading(toks, i) ==
    \/ toks[i].type \in {"Variable", "BlankLine"}
    \/ toks[i].type = "Comment" /\ TypeAfter(toks, i, {"BlankLine"}) # "Method"

\* the number of tokens of the leading region, the separator that ends it
\* included
LeadingEnd(toks) ==
    LET run == CHOOSE n \in 0..Len(toks) :
                   /\ \A i \in 1..n : IsLeading(toks, i)
                   /\ n < Len(toks) => ~IsLeading(toks, n + 1)
    IN  IF run < Len(toks) /\ toks[run + 1].type = "Separator" THEN run + 1 ELSE run

VariableTokens(toks) == {i \in 1..Len(toks) : toks[i].type = "Variable"}

\* the Variable tokens after the first separator or the first request line
LateVariables(toks) ==
    {i \in VariableTokens(toks) :
        \/ FirstOf(toks, {"Separator"}) \in 1..i
        \/ FirstOf(toks, {"Method", "Url"}) \in 1..i}

---------------------------------------------------------------------------
(* C22: a blank line emits one BlankLine token in either mode and leaves   *)
(* seenRequestLine alone; it switches the lexer into body mode exactly     *)
(* when the lexer is not in body mode and the last token emitted that is   *)
(* not a BlankLine is a Header or a Url; after a Separator, Variable,      *)
(* Comment, Method or BodyLine token, or with no token emitted yet, the    *)
(* mode stays as it was.                                                   *)
C22_Step ==
    (pc = "lex" /\ Len(input') = Len(input) + 1 /\ IsBlankLine(input'[Len(input')])) =>
        /\ pc' = "lex"
        /\ tokens' = Append(tokens, Tok("BlankLine", <<>>, <<>>, Len(input')))
        /\ has_request_line' = has_request_line
        /\ (~in_body /\ in_body') <=>
               (~in_body /\ LastNonBlankType(tokens) \in {"Header", "Url"})
        /\ in_body => in_body'
        /\ LastNonBlankType(tokens)
               \in {"", "Separator", "Variable", "Comment", "Method", "BodyLine"} =>
               in_body' = in_body

C22_BlankEntersBody == [][C22_Step]_vars_all

\* a blank line after a lone method word left the mode alone (the header
\* line after it was read as a header), a blank line after the header
\* entered body mode
C22_Witness ==
    /\ input = << <<"G", "E", "T">>, <<" ">>, <<"K", ":", " ", "v">>, <<" ">> >>
    /\ TokenTypes(tokens) = <<"Method", "BlankLine", "Header", "BlankLine">>
    /\ in_body

---------------------------------------------------------------------------
(* C23: a `###` line emits one Separator token in whatever state it is     *)
(* read, and leaves both flags false; the first non-blank line after it is *)
(* classified as the first line of a file is, so a line with a method word *)
(* emits a Method token and a URL emits a Url token.                       *)
C23_Step ==
    (pc = "lex" /\ Len(input') = Len(input) + 1) =>
        \A l \in {input'[Len(input')]} :
            LET n == Len(input) + 1
            IN  /\ IsSeparatorLine(l) =>
                       /\ pc' = "lex"
                       /\ tokens' = Append(tokens, Tok("Separator", <<>>, <<>>, n))
                       /\ ~in_body'
                       /\ ~has_request_line'
                /\ (~IsBlankLine(l)
                       /\ \E s \in 1..Len(input) :
                              /\ IsSeparatorLine(input[s])
                              /\ \A j \in (s + 1)..Len(input) : IsBlankLine(input[j])) =>
                       LET e == RuleOutcome(l, n, <<>>, FALSE, FALSE)
                       IN  IF e.err
                           THEN pc' = "done" /\ result' = "LexError" /\ tokens' = tokens
                           ELSE /\ pc' = "lex"
                                /\ tokens' = tokens \o e.toks
                                /\ HasMethodWord(l) => e.toks[1].type = "Method"
                                /\ IsUrlPrefixed(Trim(l)) => e.toks[1].type = "Url"
                                /\ in_body' = e.in_body
                                /\ has_request_line' = e.seen

C23_SeparatorResets == [][C23_Step]_vars_all

\* a separator read in body mode, and a request line after it
C23_Witness ==
    /\ input = << <<":", "9">>, <<" ">>, <<" ", "{", "b", "}", " ">>,
                  <<"#", "#", "#">>, <<"g", "e", "t", " ", ":", "1">> >>
    /\ TokenTypes(tokens) =
           <<"Url", "BlankLine", "BodyLine", "Separator", "Method", "Url">>
    /\ ~in_body
    /\ has_request_line

---------------------------------------------------------------------------
\* the tokens located before line n
TokensBefore(toks, n) == SelectSeq(toks, LAMBDA t : t.line < n)

\* a Method or Url token was emitted after the last Separator token
SeenRequestLine(toks) ==
    \E i \in 1..Len(toks) :
        /\ toks[i].type \in {"Method", "Url"}
        /\ \A j \in (i + 1)..Len(toks) : toks[j].type # "Separator"

\* line j is a blank line read when the last non-blank token was a Header
\* or a Url
EntersBody(ls, toks, j) ==
    IsBlankLine(ls[j]) /\ LastNonBlankType(TokensBefore(toks, j)) \in {"Header", "Url"}

(* C24: a variable line emits one Variable token and leaves the lexer out  *)
(* of body mode, with seenRequestLine as it was before the line; each line *)
(* after it, up to the first blank line that follows a Header or a Url, is *)
(* read outside body mode and classified by the rules that apply there     *)
(* (comment, request line, header, fallback), not emitted verbatim by the  *)
(* body rule.                                                              *)
C24_Step ==
    (pc = "lex" /\ Len(input') = Len(input) + 1) =>
        \A l \in {input'[Len(input')]} :
            LET n == Len(input) + 1
            IN  /\ (IsVariableLine(l) /\ ~MalformedVariable(l)) =>
                       /\ pc' = "lex"
                       /\ tokens' = Append(tokens, Tok("Variable", VariableName(l),
                                                       VariableValue(l), n))
                       /\ ~in_body'
                       /\ has_request_line' = has_request_line
                /\ (\E v \in 1..Len(input) :
                        /\ IsVariableLine(input[v])
                        /\ \A j \in (v + 1)..Len(input) : ~EntersBody(input, tokens, j)) =>
                       LET e == RuleOutcome(l, n, tokens, FALSE, has_request_line)
                       IN  /\ ~in_body
                           /\ IF e.err
                              THEN pc' = "done" /\ result' = "LexError" /\ tokens' = tokens
                              ELSE /\ pc' = "lex"
                                   /\ tokens' = tokens \o e.toks
                                   /\ in_body' = e.in_body
                                   /\ has_request_line' = e.seen

C24_VariableEndsBody == [][C24_Step]_vars_all

\* a variable line read in body mode: the line after it is a header again,
\* and the blank line after the header enters body mode
C24_Witness ==
    /\ input = << <<":", "9">>, <<" ">>, <<"@", "a", "=", "1">>,
                  <<"K", ":", " ", "v">>, <<" ">> >>
    /\ TokenTypes(tokens) = <<"Url", "BlankLine", "Variable", "Header", "BlankLine">>
    /\ in_body
    /\ has_request_line

---------------------------------------------------------------------------
\* a Separator token lies between the tokens at positions i and j
SeparatedAt(toks, i, j) == \E m \in (i + 1)..(j - 1) : toks[m].type = "Separator"

(* C25: two Method tokens, and two Url tokens, always have a Separator     *)
(* token between them; a Method and a Url token with no Separator token    *)
(* between them are the two tokens of one request line.  seenRequestLine   *)
(* is true exactly when a Method or Url token was emitted after the last   *)
(* Separator token, so no line read while it is true emits a Method or a   *)
(* Url token.                                                              *)
C25_OneRequestLinePerBlock ==
    /\ \A i \in 1..Len(tokens) :
           tokens[i].type \in {"Method", "Url"} =>
               \A j \in (i + 1)..Len(tokens) :
                   tokens[j].type \in {"Method", "Url"} =>
                       \/ SeparatedAt(tokens, i, j)
                       \/ /\ j = i + 1
                          /\ tokens[i].type = "Method"
                          /\ tokens[j].type = "Url"
                          /\ tokens[j].line = tokens[i].line
    /\ has_request_line = SeenRequestLine(tokens)

\* after a request line a method word and a URL are body lines, until a
\* separator: the URL after it is a request line again
C25_Witness ==
    /\ input = << <<"g", "e", "t", " ", ":", "1">>, <<"G", "E", "T">>, <<":", "9">>,
                  <<"#", "#", "#">>, <<":", "9">> >>
    /\ TokenTypes(tokens) =
           <<"Method", "Url", "BodyLine", "BodyLine", "Separator", "Url">>
    /\ has_request_line

---------------------------------------------------------------------------
(* C26: when tokenize has read its lines without error, every line has     *)
(* exactly one token, except a line read as a request line with a method   *)
(* word and text after it, which has a Method token and a Url token; the   *)
(* tokens of line n carry the number n, counted from 1, and the line       *)
(* numbers never decrease along the token sequence.                        *)
C26_OneTokenPerLine ==
    pc = "lex" =>
        /\ {tokens[i].line : i \in 1..Len(tokens)} = 1..Len(input)
        /\ \A i \in 1..(Len(tokens) - 1) :
               /\ tokens[i].line <= tokens[i + 1].line
               /\ tokens[i].line = tokens[i + 1].line =>
                      /\ tokens[i].type = "Method"
                      /\ tokens[i + 1].type = "Url"
                      /\ i + 2 <= Len(tokens) => tokens[i + 1].line < tokens[i + 2].line
        /\ \A i \in 1..Len(tokens) :
               tokens[i].type = "Method" =>
                   LET l == input[tokens[i].line]
                   IN  /\ HasMethodWord(l)
                       /\ tokens[i].a = ToUpper(FirstWord(l))
                       /\ LineUrl(l) # <<>> =>
                              /\ i < Len(tokens)
                              /\ tokens[i + 1] = Tok("Url", LineUrl(l), <<>>, tokens[i].line)
                       /\ LineUrl(l) = <<>> =>
                              (i < Len(tokens) => tokens[i].line < tokens[i + 1].line)

\* three lines, four tokens: the request line has two
C26_Witness ==
    /\ input = << <<"g", "e", "t", " ", ":", "1">>, <<"K", ":", " ", "v">>, <<" ">> >>
    /\ [i \in 1..Len(tokens) |-> <<tokens[i].type, tokens[i].line>>] =
           << <<"Method", 1>>, <<"Url", 1>>, <<"Header", 2>>, <<"BlankLine", 3>> >>

---------------------------------------------------------------------------
(* C27: a line whose trimmed text starts with `@` and has no `=`, or has   *)
(* nothing but whitespace between the `@` and the first `=`, ends tokenize *)
(* with an error in whatever state it is read, body mode included: no      *)
(* token is emitted for it, no line is read after it, and tokenize never   *)
(* returns its tokens; tokenize fails on no other line.  Stated of the     *)
(* line read last: every line of a document is the last line read in the   *)
(* state tokenize is in right after it.                                    *)
C27_MalformedVariableFails ==
    LET n == Len(input)
    IN  /\ pc = "lex" => result = ""
        /\ pc = "done" => result = "LexError"
        /\ n >= 1 =>
               /\ (IsVariableLine(input[n]) /\ MalformedVariable(input[n])) <=>
                      result = "LexError"
               /\ result = "LexError" =>
                      /\ pc = "done"
                      /\ \A i \in 1..Len(tokens) : tokens[i].line < n

\* a variable line without `=` read in body mode
C27_Witness ==
    /\ input = << <<":", "9">>, <<" ">>, <<" ", "{", "b", "}", " ">>, <<"@", "a">> >>
    /\ in_body
    /\ TokenTypes(tokens) = <<"Url", "BlankLine", "BodyLine">>
    /\ pc = "done"
    /\ result = "LexError"

---------------------------------------------------------------------------
(* Where a token sequence breaks the grammar of request blocks, read off   *)
(* the sequence.                                                           *)

\* a Method token that no Url token follows directly
MethodWithoutUrl(toks, i) ==
    /\ toks[i].type = "Method"
    /\ i = Len(toks) \/ toks[i + 1].type # "Url"

\* a Method token whose name is none of the seven
UnknownMethod(toks, i) == toks[i].type = "Method" /\ ~IsMethodName(toks[i].a)

\* a comment of a request block that no Method or Url token follows, blank
\* lines and further comments skipped
CommentWithoutRequest(toks, i) ==
    /\ i > LeadingEnd(toks)
    /\ toks[i].type = "Comment"
    /\ TypeAfter(toks, i, {"Comment", "BlankLine"}) \notin {"Method", "Url"}

\* the first token of a block, after its blank lines and comments, when it
\* is neither Method nor Url: the block starts after the leading region or
\* after a Separator token
BlockStartsWrong(toks, i) ==
    /\ i > LeadingEnd(toks)
    /\ toks[i].type \in {"Variable", "Header", "BodyLine"}
    /\ \E s \in LeadingEnd(toks)..(i - 1) :
           /\ s = LeadingEnd(toks) \/ toks[s].type = "Separator"
           /\ \A j \in (s + 1)..(i - 1) :
                  toks[j].type \in {"BlankLine", "Comment", "Separator"}

GrammarViolations(toks) ==
    {i \in 1..Len(toks) :
        \/ MethodWithoutUrl(toks, i)
        \/ UnknownMethod(toks, i)
        \/ CommentWithoutRequest(toks, i)
        \/ BlockStartsWrong(toks, i)}

---------------------------------------------------------------------------
\* the places in the selection of the requests that cannot be interpolated
FailingSelected(env) ==
    {i \in 1..Len(SelectedPositions) :
        RequestError(requests[SelectedPositions[i] + 1], env) # ""}

(* C29: when a run without dry-run ends with an interpolation error, the   *)
(* error is that of the first selected request that cannot be              *)
(* interpolated, the k-th say; the k-1 selected requests before it have    *)
(* been sent, in order, and answered, and no other request was sent: the   *)
(* error is met in the loop, not before the first call.                    *)
C29_ErrorsMetInOrder ==
    (~opts.dry_run /\ result \in {"Undefined", "Unclosed"}) =>
        LET bad == FailingSelected(vars)
        IN  /\ pc = "done"
            /\ bad # {}
            /\ result = RequestError(requests[SelectedPositions[Least(bad)] + 1], vars)
            /\ CalledPositions = SubSeq(SelectedPositions, 1, Least(bad) - 1)
            /\ responses = [i \in 1..(Least(bad) - 1) |-> "ok"]

\* the first request was sent, the second names an undefined variable, and
\* the third, which could be sent, was not
C29_Witness ==
    /\ pc = "done"
    /\ result = "Undefined"
    /\ ~opts.dry_run
    /\ SelectedPositions = <<0, 1, 2>>
    /\ FailingSelected(vars) = {2}
    /\ CalledPositions = <<0>>
    /\ responses = <<"ok">>

---------------------------------------------------------------------------
(* C30: a run of execute whose selection is valid ends, in a dry run, with *)
(* the error of the first selected request whose URL, headers or body      *)
(* cannot be interpolated, and ends well only when every selected request  *)
(* can be; a run without dry-run ends the same way unless the transport    *)
(* fails first.  The dry run makes no call.                                *)
C30_DryRunStillFails ==
    (pc = "done" /\ result \notin {"InvalidIndex", "InvalidFilter"}) =>
        LET bad == FailingSelected(vars)
            outcome == IF bad = {} THEN "ok"
                       ELSE RequestError(requests[SelectedPositions[Least(bad)] + 1],
                                         vars)
        IN  /\ opts.dry_run => (result = outcome /\ calls = <<>>)
            /\ ~opts.dry_run => result \in {outcome, "TransportError"}

\* a dry run went past one request and failed on the header of the second
C30_Witness ==
    /\ pc = "done"
    /\ opts.dry_run
    /\ result = "Unclosed"
    /\ k = 1
    /\ requests[to_run[2] + 1].headers = <<Hdr(<<"K">>, T_OPEN)>>
    /\ calls = <<>>

---------------------------------------------------------------------------
(* C31: with both a request index and a method filter, the index is        *)
(* checked first: an index of 0 or past the last request ends the run with *)
(* the invalid-index error, also when the filter names no method; with the *)
(* index in range, a filter that names no method ends it with the          *)
(* invalid-filter error; otherwise the filter is applied to the one        *)
(* request at the index: when its method differs, the run ends well and    *)
(* calls nothing, when it is the same, only that request is run.           *)
C31_IndexThenFilter ==
    (opts.request_index.some /\ opts.method_filter.some /\ pc # "exec") =>
        LET idx == opts.request_index.val
            f == opts.method_filter.val
        IN  IF idx = 0 \/ idx > Len(requests)
            THEN pc = "done" /\ result = "InvalidIndex" /\ calls = <<>>
            ELSE IF ~IsMethodName(f)
            THEN pc = "done" /\ result = "InvalidFilter" /\ calls = <<>>
            ELSE IF requests[idx].method # ToUpper(f)
            THEN pc = "done" /\ result = "ok" /\ calls = <<>> /\ to_run = <<>>
            ELSE /\ to_run = <<idx - 1>>
                 /\ Len(calls) <= 1
                 /\ \A i \in 1..Len(calls) : calls[i].req = idx - 1
                 /\ (pc = "done" /\ result = "ok" /\ ~opts.dry_run) => Len(calls) = 1

\* the second of two requests is selected, it is a GET and the filter says
\* post: the run ended well without a call, although the first is a POST
C31_Witness ==
    /\ pc = "done"
    /\ result = "ok"
    /\ ~opts.dry_run
    /\ opts.request_index = Some(2)
    /\ opts.method_filter = Some(<<"p", "o", "s", "t">>)
    /\ Len(requests) = 2
    /\ requests[1].method = POST
    /\ requests[2].method = GET
    /\ calls = <<>>

---------------------------------------------------------------------------
(* What the variables of a file say, read off the file: the value written  *)
(* for a name is the one of its last definition, character for character.  *)

WrittenNames == {variables[i].name : i \in 1..Len(variables)}

Written(name) ==
    LET last == CHOOSE i \in 1..Len(variables) :
                    /\ variables[i].name = name
                    /\ \A j \in (i + 1)..Len(variables) : variables[j].name # name
    IN  variables[last].value

WrittenEnv == [name \in WrittenNames |-> Written(name)]

(* C32: interpolation is one pass over the text of the request. The value  *)
(* of a variable is kept in the environment as it is written, spans        *)
(* included; every text the transport receives is the text of the request  *)
(* with each of its own spans replaced by the written value of its name,   *)
(* so a `{{other}}` inside a value arrives as those characters; and an     *)
(* interpolation error is always the error of a span of the request's own  *)
(* texts, never of a span inside a value.                                  *)
C32_SinglePass ==
    pc \in {"loop", "call", "done"} =>
        /\ vars = WrittenEnv
        /\ \A i \in 1..Len(calls) :
               LET req == requests[calls[i].req + 1]
               IN  /\ calls[i].url = Substituted(req.url, WrittenEnv)
                   /\ calls[i].headers
                          = [j \in 1..Len(req.headers) |->
                                <<Substituted(req.headers[j].key, WrittenEnv),
                                  Substituted(req.headers[j].value, WrittenEnv)>>]
                   /\ calls[i].body.some = req.body.some
                   /\ req.body.some =>
                          calls[i].body.val = Substituted(req.body.val, WrittenEnv)
        /\ result \in {"Undefined", "Unclosed"} =>
               /\ k < Len(to_run)
               /\ RequestError(requests[to_run[k + 1] + 1], WrittenEnv) = result

\* a is written as {{x}} and x is written nowhere: the request with the
\* body w{{a}} was sent with the body w{{x}} and the run ended well
C32_Witness ==
    /\ pc = "done"
    /\ result = "ok"
    /\ variables = <<Var(<<"a">>, T_X)>>
    /\ Len(calls) = 1
    /\ requests[calls[1].req + 1].body = Some(<<"w">> \o T_A)
    /\ calls[1].body = Some(<<"w">> \o T_X)
    /\ calls[1].headers = <<<<<<"K">>, T_X>>>>

---------------------------------------------------------------------------
\* one iteration of the parser's loop over the request blocks was run: a
\* request was added and the loop goes on, or parse returned an error
RequestLoopIteration ==
    pc = "parse_req" /\ pc' \in {"parse_req", "done"}

C33_Step == RequestLoopIteration => (pos < pos' /\ pos' <= Len(tokens))

\* the ends of a run: what tokenize, parse and execute return
Results ==
    {"ok", "LexError", "ParseError", "InvalidIndex", "InvalidFilter",
     "Undefined", "Unclosed", "TransportError"}

(* C33: every run ends, when every call of the transport returns: tokenize *)
(* on every document, then parse on its tokens, then execute on the file,  *)
(* as well as parse on every token sequence and execute on every file; it  *)
(* ends with a result or with an error; and every iteration of the         *)
(* parser's loop over the request blocks leaves fewer tokens unread than   *)
(* it found, never more than there are.                                    *)
C33_Terminates ==
    /\ <>(pc = "done" /\ result \in Results)
    /\ [][C33_Step]_vars_all

\* a document of two requests was tokenized, parsed in two iterations of
\* the loop and executed with two calls of the transport
C33_Witness ==
    /\ pc = "done"
    /\ result = "ok"
    /\ Len(input) = 3
    /\ pos = Len(tokens)
    /\ Len(requests) = 2
    /\ Len(calls) = 2

====
